---- MODULE Spec2Model ----
(***************************************************************************)
(* Tool registry, per-session conversation entity, chat-turn orchestrators *)
(* and approval endpoints of the durable agent samples.                    *)
(*                                                                         *)
(* Texts are sequences of string tokens: "a" + "b" is <<"a">> \o <<"b">>.  *)
(* Times are whole seconds of the wall clock.                              *)
(***************************************************************************)
EXTENDS Integers, Sequences, FiniteSets, TLC

VARIABLES
  now,          \* wall clock, seconds
  entity,       \* durable entity state: entity[entityName][sessionId]
  orch,         \* orchestration instances of the human-in-loop orchestrator
  posts,        \* decisions posted to an approval endpoint, with their signalEntity message
  lastResponse, \* last HTTP response produced by an endpoint
  executed,     \* log of tool executor invocations
  wApprovals,   \* HumanInLoopDurableAgentWrapper.pendingApprovals (in-memory Map)
  wTurn,        \* chat activity instances of the wrapper variant
  fTurn,        \* orchestration instances of the simple / Foundry variants
  tcase,        \* registry case: the inputs of one executeTool call
  tres          \* registry case: what executeTool produced

vars == <<now, entity, orch, posts, lastResponse, executed,
          wApprovals, wTurn, fTurn, tcase, tres>>

-----------------------------------------------------------------------------
(* Bounds *)

MaxDecisions == 1
MaxPolls == 1        \* polls of one gated call that find the clock on time
MaxSlowTicks == 2    \* poll intervals the clock passes one at a time

Sessions == {"s1", "s2"}
Instances == {1, 2}    \* chat turns of the human-in-loop orchestrator

-----------------------------------------------------------------------------
(* Text helpers *)

Undefined == "undefined"
UndefinedText == <<Undefined>>

\* x || fallback, on texts
OrElse(x, fallback) == IF x = <<>> \/ x = UndefinedText THEN fallback ELSE x

\* `${x}` / String(x) of a thrown value: an Error prints as "Error: <message>",
\* a thrown string prints as itself.
ErrorToString(e) ==
  IF e.kind = "Error" THEN <<"Error: ", e.message>> ELSE <<e.message>>

\* args[paramName] on the parsed JSON object (a sequence of <<key, value>>)
Lookup(args, p) ==
  IF \E j \in 1..Len(args) : args[j][1] = p
  THEN LET j == CHOOSE j \in 1..Len(args) : args[j][1] = p IN args[j][2]
  ELSE Undefined

RECURSIVE Flatten(_)
Flatten(ss) == IF ss = <<>> THEN <<>> ELSE Head(ss) \o Flatten(Tail(ss))

\* JSON.stringify(toolArgs), as tokens
Stringify(args) == Flatten([j \in 1..Len(args) |-> <<args[j][1], ":", args[j][2]>>])

-----------------------------------------------------------------------------
(* ToolRegistry (Tool.ts) *)

\* A ToolDefinition is [name, parameters (sequence of [name, required]), handler].
\* The registry is the insertion-ordered Map, as a sequence of definitions.

HasTool(reg, toolName) == \E j \in 1..Len(reg) : reg[j].name = toolName

GetTool(reg, toolName) == reg[CHOOSE j \in 1..Len(reg) : reg[j].name = toolName]

\* (variant that adds an entry on every registration)
registerToolAppends(reg, toolDef) == Append(reg, toolDef)
\* this.tools.set(toolDef.name, toolDef): a Map keeps the position of a key it
\* already holds and replaces its value
registerTool(reg, toolDef) ==
  IF HasTool(reg, toolDef.name)
  THEN [j \in 1..Len(reg) |-> IF reg[j].name = toolDef.name THEN toolDef ELSE reg[j]]
  ELSE Append(reg, toolDef)

\* getToolNames(): Array.from(this.tools.keys())
getToolNames(reg) == [j \in 1..Len(reg) |-> reg[j].name]
\* getToolCount(): this.tools.size
getToolCount(reg) == Len(reg)

\* What a handler does with its positional arguments.  behaviour:
\*   "ok"          resolves with its text
\*   "throwError"  throws / rejects with new Error(message)
\*   "throwString" throws / rejects with a string
RunHandler(tool, argArray, behaviour) ==
  CASE behaviour = "ok" ->
         [threw |-> FALSE, value |-> <<tool.handler, "(">> \o argArray \o <<")">>]
    [] behaviour = "throwError" ->
         [threw |-> TRUE, value |-> [kind |-> "Error", message |-> "boom"]]
    [] OTHER ->
         [threw |-> TRUE, value |-> [kind |-> "string", message |-> "boom"]]

\* (variant of the catch block that lets the failure escape)
ExecuteToolRethrows(toolName, e) ==
  [raised |-> TRUE, value |-> <<"Error executing ", toolName, ": ">> \o ErrorToString(e)]
\* the catch block of executeTool: the failure becomes the returned text
ExecuteToolCaught(toolName, e) ==
  [raised |-> FALSE, value |-> <<"Error executing ", toolName, ": ">> \o ErrorToString(e)]

\* (variant that passes the values in the order of the argument mapping)
ArgArrayInMappingOrder(paramNames, args) ==
  [j \in 1..Len(paramNames) |-> IF j <= Len(args) THEN args[j][2] ELSE Undefined]
\* paramNames.map(paramName => args[paramName])
ArgArray(paramNames, args) ==
  [j \in 1..Len(paramNames) |-> Lookup(args, paramNames[j])]

\* executeTool(toolName, args): [raised, value]; raised = the promise rejects
executeTool(reg, toolName, args, behaviour) ==
  IF ~HasTool(reg, toolName)
  THEN [raised |-> TRUE, value |-> <<"Error: ", "Tool '", toolName, "' not found in registry">>]
  ELSE LET tool == GetTool(reg, toolName)
           paramNames == [j \in 1..Len(tool.parameters) |-> tool.parameters[j].name]
           argArray == ArgArray(paramNames, args)
           r == RunHandler(tool, argArray, behaviour)
       IN IF r.threw THEN ExecuteToolCaught(toolName, r.value)
          ELSE [raised |-> FALSE, value |-> r.value]

\* createParameter(type, description, required = true): {type, description, required}
\* (required is "true", "false", or undefined when the field is left out)
createParameter(type, description, required) ==
  [type |-> type, description |-> description,
   required |-> IF required = Undefined THEN "true" ELSE required]
\* one entry name: ToolParameter of ToolDefinition.parameters
ParamEntry(n, param) ==
  [name |-> n, type |-> param.type, description |-> param.description,
   required |-> param.required]
Param(n) == ParamEntry(n, createParameter("string", <<"the ", n>>, Undefined))
\* createParameter('number', description)
NumberParam(n) == ParamEntry(n, createParameter("number", <<"the ", n>>, Undefined))
OptionalParam(n) == ParamEntry(n, createParameter("string", <<"the ", n>>, "false"))
\* a parameter written as a literal {type, description}
PlainParam(n) ==
  ParamEntry(n, [type |-> "number", description |-> <<"the ", n>>, required |-> Undefined])

\* (variant that lists a parameter as required only when its flag is true)
IsRequiredWhenTrue(param) == param.required = "true"
\* param.required !== false
IsRequired(param) == param.required # "false"

\* Object.entries(tool.parameters).filter(...).map(([name]) => name)
RequiredNames(parameters) ==
  LET kept == SelectSeq(parameters, IsRequired)
  IN [j \in 1..Len(kept) |-> kept[j].name]

\* getOpenAISchema(): one function entry per registered tool, in Map order
getOpenAISchema(reg) ==
  [j \in 1..Len(reg) |->
     [type |-> "function",
      function |->
        [name |-> reg[j].name,
         description |-> reg[j].description,
         parameters |->
           [type |-> "object",
            properties |-> [h \in 1..Len(reg[j].parameters) |->
                              [name |-> reg[j].parameters[h].name,
                               type |-> reg[j].parameters[h].type,
                               description |-> reg[j].parameters[h].description]],
            required |-> RequiredNames(reg[j].parameters)]]]]

\* financialToolRegistry of the human-in-loop sample
financialToolRegistry ==
  registerTool(
    registerTool(
      registerTool(<<>>,
        [name |-> "checkAccountBalance",
         description |-> <<"Check account balance">>,
         parameters |-> <<Param("accountNumber")>>,
         handler |-> "balance"]),
      [name |-> "makePayment",
       description |-> <<"Transfer money">>,
       parameters |-> <<Param("fromAccount"), Param("toAccount"), NumberParam("amount")>>,
       handler |-> "payment"]),
    [name |-> "generateReport",
     description |-> <<"Generate financial report">>,
     parameters |-> <<Param("accountNumber"), Param("period")>>,
     handler |-> "report"])

-----------------------------------------------------------------------------
(* Conversation entity of the human-in-loop orchestrator                    *)
(* (HumanInLoopDurableAgentOrchestrator.createConversationEntity)           *)

\* Agent names are texts; a token of SpecialChars stands for a character
\* outside a-z, A-Z, 0-9.
SpecialChars == {" ", "-", "_"}
FinancialAgent == <<"FinancialAgent">>
MathAgent == <<"MathAgent">>
WeatherAgent == <<"WeatherAgent">>
\* agents the multi-agent app constructs and runs
Agents == {MathAgent, WeatherAgent}

\* config.name.replace(/[^a-zA-Z0-9]/g, '')
IsAlphanumeric(token) == token \notin SpecialChars
AgentId(name) == SelectSeq(name, IsAlphanumeric)

\* (variant that gives every agent the same entity name)
EntityNameFixed(name) == <<"conversationEntity">>
\* this.entityName = `${agentId}ConversationEntity`
EntityNameOf(name) == AgentId(name) \o <<"ConversationEntity">>
FinancialEntity == EntityNameOf(FinancialAgent)
\* AzureFoundryAgentOrchestrator: this.entityName = 'conversationEntity'
FoundryEntity == <<"conversationEntity">>
EntityNames == {FinancialEntity, FoundryEntity} \cup {EntityNameOf(a) : a \in Agents}

NoTime == -1

\* an entity the platform holds no state for
NoEntity ==
  [exists |-> FALSE, chatHistory |-> <<>>, pendingApprovals |-> <<>>,
   createdAt |-> NoTime, lastUpdated |-> NoTime]

\* context.df.getState(initializer)
GetStateOrInit(st, t) ==
  IF st.exists THEN st
  ELSE [exists |-> FALSE, chatHistory |-> <<>>, pendingApprovals |-> <<>>,
        createdAt |-> t, lastUpdated |-> t]

\* (variant of 'addMessage' that leaves lastUpdated as it was)
addMessageKeepsLastUpdated(st, role, content, t) ==
  LET state == GetStateOrInit(st, t) IN
  [state EXCEPT !.exists = TRUE,
                !.chatHistory = Append(@, [role |-> role, content |-> content, timestamp |-> t])]
\* case 'addMessage'
addMessage(st, role, content, t) ==
  LET state == GetStateOrInit(st, t) IN
  [state EXCEPT !.exists = TRUE,
                !.chatHistory = Append(@, [role |-> role, content |-> content, timestamp |-> t]),
                !.lastUpdated = t]

\* case 'addApprovalRequest'
addApprovalRequest(st, sessionId, toolName, toolArgs, reasoning, t) ==
  LET state == GetStateOrInit(st, t) IN
  [state EXCEPT !.exists = TRUE,
                !.pendingApprovals =
                    Append(@, [sessionId |-> sessionId, toolName |-> toolName,
                               toolArgs |-> toolArgs, reasoning |-> reasoning,
                               timestamp |-> t, status |-> "pending",
                               humanResponse |-> UndefinedText,
                               humanResponseTimestamp |-> NoTime]),
                !.lastUpdated = t]

\* state.pendingApprovals.find(a => a.sessionId === sessionId && a.status === 'pending'):
\* index of the first match, 0 when there is none
FindPending(approvals, sessionId) ==
  IF \E j \in 1..Len(approvals) :
       approvals[j].sessionId = sessionId /\ approvals[j].status = "pending"
  THEN CHOOSE j \in 1..Len(approvals) :
         /\ approvals[j].sessionId = sessionId /\ approvals[j].status = "pending"
         /\ \A h \in 1..(j-1) :
              ~(approvals[h].sessionId = sessionId /\ approvals[h].status = "pending")
  ELSE 0

\* case 'handleApproval': the state afterwards (unchanged when nothing is found)
handleApproval(st, sessionId, decision, humanResponse, t) ==
  LET state == GetStateOrInit(st, t)
      j == FindPending(state.pendingApprovals, sessionId)
  IN IF j # 0
     THEN [state EXCEPT !.exists = TRUE,
                        !.pendingApprovals[j].status = decision,
                        !.pendingApprovals[j].humanResponse = humanResponse,
                        !.pendingApprovals[j].humanResponseTimestamp = t,
                        !.lastUpdated = t]
     ELSE st

\* case 'handleApproval': what the operation returns
handleApprovalResult(st, sessionId) ==
  IF FindPending(st.pendingApprovals, sessionId) # 0
  THEN [success |-> TRUE, error |-> ""]
  ELSE [success |-> FALSE, error |-> "Approval request not found"]

\* Array.filter
RECURSIVE FilterStatus(_, _)
FilterStatus(approvals, keepPending) ==
  IF approvals = <<>> THEN <<>>
  ELSE IF (Head(approvals).status = "pending") = keepPending
       THEN <<Head(approvals)>> \o FilterStatus(Tail(approvals), keepPending)
       ELSE FilterStatus(Tail(approvals), keepPending)

\* case 'getPendingApprovals'
getPendingApprovals(st) == FilterStatus(st.pendingApprovals, TRUE)

\* chatHistory.slice(-5)
RecentWindow == 5
SliceLast(seq, n) ==
  IF Len(seq) <= n THEN seq ELSE SubSeq(seq, Len(seq) - n + 1, Len(seq))

\* case 'getState'
getState(st, t) ==
  LET state == GetStateOrInit(st, t) IN
  [messageCount |-> Len(state.chatHistory),
   pendingApprovalCount |-> Len(FilterStatus(state.pendingApprovals, TRUE)),
   createdAt |-> state.createdAt,
   lastUpdated |-> state.lastUpdated,
   recentMessages |-> SliceLast(state.chatHistory, RecentWindow),
   pendingApprovals |-> state.pendingApprovals]

\* case 'getFullHistory'
getFullHistory(st) ==
  [chatHistory |-> st.chatHistory, approvalHistory |-> st.pendingApprovals]


-----------------------------------------------------------------------------
(* Chat orchestrator of the human-in-loop orchestrator                      *)
(* (HumanInLoopDurableAgentOrchestrator.createChatOrchestrator)             *)

\* financialAgent.setHumanApprovalTools(['makePayment'])
humanApprovalTools == {"makePayment"}

DefaultApprovalTimeoutMinutes == 30
PollIntervalSeconds == 5
SecondsPerMinute == 60

\* body.approvalTimeoutMinutes as sent by the caller; 0 stands for a missing field
ApprovalTimeoutInputs == {0, 1}

\* tool calls the model may ask for
\* (behaviour: what the tool's executor does when this call reaches it)
BalanceCall ==
  [name |-> "checkAccountBalance", args |-> << <<"accountNumber", "12345">> >>,
   behaviour |-> "ok"]
PaymentCall(amount) ==
  [name |-> "makePayment",
   args |-> << <<"fromAccount", "12345">>, <<"toAccount", "67890">>, <<"amount", amount>> >>,
   behaviour |-> "ok"]
ToolCallChoices == {BalanceCall, PaymentCall("5000"), PaymentCall("9000")}
ToolCallLists ==
  {<<c>> : c \in ToolCallChoices} \cup {<<PaymentCall("5000"), BalanceCall>>}

\* response.choices[0].message of the first model call
ModelResponses ==
  {[content |-> <<"answer">>, tool_calls |-> <<>>]} \cup
  {[content |-> <<>>, tool_calls |-> tc] : tc \in ToolCallLists}

Feedbacks == {<<>>, <<"not authorized">>}

NoOutput ==
  [present |-> FALSE, response |-> <<>>, requiresApproval |-> FALSE,
   toolName |-> "", toolArgs |-> <<>>]

IdleOrch ==
  [pc |-> "idle", sessionId |-> "", message |-> <<>>, approvalTimeoutMinutes |-> 0,
   toolCalls |-> <<>>, k |-> 0, finalResponse |-> <<>>,
   timeoutDate |-> NoTime, timerDue |-> NoTime, polls |-> 0,
   humanDecision |-> [approved |-> FALSE, feedback |-> <<>>],
   myReq |-> 0, output |-> NoOutput,
   overlapped |-> FALSE,   \* history: started while another turn of the session was running
   modelCalls |-> 0]       \* history: chat completions requested by the turn

\* what a finished instance keeps: its input, its output and the request it created
Finished(o, pc, out) ==
  [IdleOrch EXCEPT !.pc = pc, !.sessionId = o.sessionId, !.message = o.message,
                   !.myReq = o.myReq, !.output = out, !.overlapped = o.overlapped]

Active(i) == orch[i].pc \notin {"idle", "done", "failed"}

MessageOf(i) == <<"message", ToString(i)>>
MinutesText(m) == <<ToString(m), " minutes">>

Ent(i) == entity[FinancialEntity][orch[i].sessionId]
\* (variant in which the sessions of the agent share one state)
SetEntShared(i, st) == [entity EXCEPT ![FinancialEntity] = [s \in Sessions |-> st]]
\* new df.EntityId(entityName, sessionId): the entity a turn writes to
SetEnt(i, st) == [entity EXCEPT ![FinancialEntity][orch[i].sessionId] = st]

\* chat endpoint: client.startNew(orchestratorName, {input: {message, sessionId, approvalTimeoutMinutes}})
StartNew(i) ==
  /\ orch[i].pc = "idle"
  /\ \A h \in Instances : h < i => orch[h].pc # "idle"
  /\ \E s \in Sessions, m \in ApprovalTimeoutInputs :
       orch' = [orch EXCEPT ![i] =
                  [IdleOrch EXCEPT !.pc = "storeUser", !.sessionId = s,
                                   !.message = MessageOf(i),
                                   !.overlapped =
                                       \E h \in Instances : Active(h) /\ orch[h].sessionId = s,
                                   !.approvalTimeoutMinutes =
                                       IF m = 0 THEN DefaultApprovalTimeoutMinutes ELSE m]]
  /\ UNCHANGED <<now, entity, posts, lastResponse, executed, wApprovals, wTurn, fTurn, tcase, tres>>

\* (variant in which the turn goes on to the model call without the append)
StoreUserSkipped(i) ==
  /\ orch[i].pc = "storeUser"
  /\ orch' = [orch EXCEPT ![i].pc = "processMessage"]
  /\ UNCHANGED <<now, entity, posts, lastResponse, executed, wApprovals, wTurn, fTurn, tcase, tres>>
\* Step 1: yield callEntity(entityId, 'addMessage', {role: 'user', content: message})
StoreUser(i) ==
  /\ orch[i].pc = "storeUser"
  /\ entity' = SetEnt(i, addMessage(Ent(i), "user", orch[i].message, now))
  /\ orch' = [orch EXCEPT ![i].pc = "processMessage"]
  /\ UNCHANGED <<now, posts, lastResponse, executed, wApprovals, wTurn, fTurn, tcase, tres>>

\* Step 2: yield callActivity('ProcessMessage', ...) returns the model's message
ProcessMessageWith(i, responses) ==
  /\ orch[i].pc = "processMessage"
  /\ \E r \in responses :
       orch' = [orch EXCEPT
                  ![i].modelCalls = @ + 1,
                  ![i].finalResponse = OrElse(r.content, <<"No response generated">>),
                  ![i].toolCalls = r.tool_calls,
                  ![i].k = IF Len(r.tool_calls) > 0 THEN 1 ELSE 0,
                  ![i].pc = IF Len(r.tool_calls) > 0 THEN "toolCall" ELSE "storeAssistant"]
  /\ UNCHANGED <<now, entity, posts, lastResponse, executed, wApprovals, wTurn, fTurn, tcase, tres>>

ProcessMessage(i) == ProcessMessageWith(i, ModelResponses)

\* the error of a failed chat completion
ModelCallFailed == <<"Error: ", "model call failed">>
\* catch (error) { throw error }: the orchestration ends Failed with the error
Failure(e) == [NoOutput EXCEPT !.response = e]

\* (variant of the failure path that records the error in the transcript)
ProcessMessageFailsStored(i) ==
  /\ orch[i].pc = "processMessage"
  /\ entity' = SetEnt(i, addMessage(Ent(i), "assistant", ModelCallFailed, now))
  /\ orch' = [orch EXCEPT ![i] = Finished(orch[i], "failed", Failure(ModelCallFailed))]
  /\ UNCHANGED <<now, posts, lastResponse, executed, wApprovals, wTurn, fTurn, tcase, tres>>
\* Step 2 when the model call fails: the activity throws, the orchestrator rethrows
ProcessMessageFails(i) ==
  /\ orch[i].pc = "processMessage"
  /\ orch' = [orch EXCEPT ![i] = Finished(orch[i], "failed", Failure(ModelCallFailed))]
  /\ UNCHANGED <<now, entity, posts, lastResponse, executed, wApprovals, wTurn, fTurn, tcase, tres>>

CurrentCall(i) == orch[i].toolCalls[orch[i].k]

\* one invocation of a tool's executor, as logged
Invocation(i, call, result) ==
  [inst |-> i, k |-> orch[i].k, sessionId |-> orch[i].sessionId,
   toolName |-> call.name, toolArgs |-> call.args, result |-> result,
   req |-> orch[i].myReq,
   reqStatus |-> IF orch[i].myReq = 0 THEN "none"
                 ELSE Ent(i).pendingApprovals[orch[i].myReq].status]

\* (variant that asks for approval of every tool)
IsGatedAlways(toolName) == TRUE
\* humanApprovalTools.has(toolName)
IsGated(toolName) == toolName \in humanApprovalTools

\* (variant of the loop condition that ignores the deadline)
BeforeDeadlineAlways(t, timeoutDate) == TRUE
\* while (context.df.currentUtcDateTime < timeoutDate)
BeforeDeadline(t, timeoutDate) == t < timeoutDate

\* the approval branch up to the first timer:
\* yield callEntity(entityId, 'addApprovalRequest', ...), timeoutDate, createTimer
RequestApproval(i) ==
  /\ orch[i].pc = "toolCall"
  /\ IsGated(CurrentCall(i).name)
  /\ LET call == CurrentCall(i)
         reasoning == <<"AI wants to execute ", call.name, " with: ">> \o Stringify(call.args)
         st == addApprovalRequest(Ent(i), orch[i].sessionId, call.name, call.args, reasoning, now)
         timeoutDate == now + orch[i].approvalTimeoutMinutes * SecondsPerMinute
     IN /\ entity' = SetEnt(i, st)
        /\ orch' = [orch EXCEPT
                      ![i].myReq = Len(st.pendingApprovals),
                      ![i].timeoutDate = timeoutDate,
                      ![i].timerDue = IF BeforeDeadline(now, timeoutDate)
                                      THEN now + PollIntervalSeconds ELSE NoTime,
                      ![i].pc = IF BeforeDeadline(now, timeoutDate)
                                THEN "timer" ELSE "timeoutMark"]
  /\ UNCHANGED <<now, posts, lastResponse, executed, wApprovals, wTurn, fTurn, tcase, tres>>

\* "Execute safe tools immediately": yield callActivity('ExecuteTool', {toolName, toolArgs})
ExecuteSafeTool(i) ==
  /\ orch[i].pc = "toolCall"
  /\ ~IsGated(CurrentCall(i).name)
  /\ LET call == CurrentCall(i)
         r == executeTool(financialToolRegistry, call.name, call.args, call.behaviour)
     IN IF r.raised
        THEN /\ orch' = [orch EXCEPT ![i] = Finished(orch[i], "failed", Failure(r.value))]
             /\ UNCHANGED executed
        ELSE /\ executed' = executed \cup {Invocation(i, call, r.value)}
             /\ orch' = [orch EXCEPT
                           ![i].finalResponse = r.value,
                           ![i].k = IF orch[i].k < Len(orch[i].toolCalls) THEN @ + 1 ELSE @,
                           ![i].pc = IF orch[i].k < Len(orch[i].toolCalls)
                                     THEN "toolCall" ELSE "storeAssistant"]
  /\ UNCHANGED <<now, entity, posts, lastResponse, wApprovals, wTurn, fTurn, tcase, tres>>

\* yield context.df.createTimer(delay) completes once the clock has reached delay
TimerFired(i) ==
  /\ orch[i].pc = "timer"
  /\ now >= orch[i].timerDue
  /\ orch' = [orch EXCEPT ![i].pc = "getState"]
  /\ UNCHANGED <<now, entity, posts, lastResponse, executed, wApprovals, wTurn, fTurn, tcase, tres>>

\* entityState.pendingApprovals.find(a => a.sessionId === sessionId &&
\*    a.toolName === toolName && a.status !== 'pending'): first match, 0 for none
FindDecided(approvals, sessionId, toolName) ==
  LET hit(j) == /\ approvals[j].sessionId = sessionId
                /\ approvals[j].toolName = toolName
                /\ approvals[j].status # "pending"
  IN IF \E j \in 1..Len(approvals) : hit(j)
     THEN CHOOSE j \in 1..Len(approvals) : hit(j) /\ \A h \in 1..(j-1) : ~hit(h)
     ELSE 0

\* the return of the approval branch
ApprovalOutput(i, response) ==
  [present |-> TRUE, response |-> response, requiresApproval |-> TRUE,
   toolName |-> CurrentCall(i).name, toolArgs |-> CurrentCall(i).args]

\* one pass of the polling loop after its timer: yield callEntity(entityId, 'getState'),
\* the search for a decided approval, and the loop condition
PollState(i) ==
  /\ orch[i].pc = "getState"
  /\ LET entityState == getState(Ent(i), now)
         j == FindDecided(entityState.pendingApprovals, orch[i].sessionId, CurrentCall(i).name)
     IN IF j # 0
        THEN LET currentApproval == entityState.pendingApprovals[j]
                 feedback == OrElse(currentApproval.humanResponse, <<>>)
             IN IF currentApproval.status = "approved"
                THEN orch' = [orch EXCEPT
                                ![i].humanDecision = [approved |-> TRUE, feedback |-> feedback],
                                ![i].pc = "execApproved"]
                ELSE orch' = [orch EXCEPT ![i] =
                                Finished(orch[i], "done",
                                  ApprovalOutput(i, <<"[HUMAN REJECTED] ">> \o
                                     OrElse(feedback, <<"Operation was rejected">>)))]
        ELSE IF BeforeDeadline(now, orch[i].timeoutDate)
             THEN orch' = [orch EXCEPT ![i].timerDue = now + PollIntervalSeconds,
                                       ![i].polls = @ + 1,
                                       ![i].pc = "timer"]
             ELSE orch' = [orch EXCEPT ![i].pc = "timeoutMark"]
  /\ UNCHANGED <<now, entity, posts, lastResponse, executed, wApprovals, wTurn, fTurn, tcase, tres>>

\* approved: yield callActivity('ExecuteTool', {toolName, toolArgs}) and return
ExecuteApprovedTool(i) ==
  /\ orch[i].pc = "execApproved"
  /\ LET call == CurrentCall(i)
         r == executeTool(financialToolRegistry, call.name, call.args, call.behaviour)
     IN IF r.raised
        THEN /\ orch' = [orch EXCEPT ![i] = Finished(orch[i], "failed", Failure(r.value))]
             /\ UNCHANGED executed
        ELSE /\ executed' = executed \cup {Invocation(i, call, r.value)}
             /\ orch' = [orch EXCEPT ![i] =
                           Finished(orch[i], "done",
                                    ApprovalOutput(i, <<"[HUMAN APPROVED] ">> \o r.value))]
  /\ UNCHANGED <<now, entity, posts, lastResponse, wApprovals, wTurn, fTurn, tcase, tres>>

\* timeout: yield callEntity(entityId, 'handleApproval', {sessionId, 'rejected', ...}) and return
TimeoutReason(i) == <<"Timeout after ">> \o MinutesText(orch[i].approvalTimeoutMinutes)
MarkTimeout(i) ==
  /\ orch[i].pc = "timeoutMark"
  /\ entity' = SetEnt(i, handleApproval(Ent(i), orch[i].sessionId, "rejected",
                                        TimeoutReason(i), now))
  /\ orch' = [orch EXCEPT ![i] =
                Finished(orch[i], "done",
                  ApprovalOutput(i, <<"[TIMEOUT] Request timed out after ">> \o
                                    MinutesText(orch[i].approvalTimeoutMinutes)))]
  /\ UNCHANGED <<now, posts, lastResponse, executed, wApprovals, wTurn, fTurn, tcase, tres>>

\* Step 4: yield callEntity(entityId, 'addMessage', {role: 'assistant', ...}) and return
StoreAssistant(i) ==
  /\ orch[i].pc = "storeAssistant"
  /\ entity' = SetEnt(i, addMessage(Ent(i), "assistant", orch[i].finalResponse, now))
  /\ orch' = [orch EXCEPT ![i] =
                Finished(orch[i], "done",
                  [NoOutput EXCEPT !.present = TRUE, !.response = orch[i].finalResponse])]
  /\ UNCHANGED <<now, posts, lastResponse, executed, wApprovals, wTurn, fTurn, tcase, tres>>


-----------------------------------------------------------------------------
(* Clock, approval endpoint and signal delivery                             *)

Waiting(i) == orch[i].pc = "timer" /\ orch[i].timerDue > now

\* The clock moves on by one poll interval at a time during the first
\* MaxSlowTicks intervals, whatever the turns are doing (an entity call or an
\* activity may be pending, a due timer may not have completed yet, no turn
\* may be running), and it moves to the next instant at which a timer of a
\* waiting turn falls due (a durable timer completes at or after its fire
\* time, so a poll may also find the clock already at the deadline of the call).
NextTimes ==
  {t + PollIntervalSeconds : t \in {x \in {now} : x < MaxSlowTicks * PollIntervalSeconds}}
  \cup
  {orch[i].timerDue : i \in {h \in Instances :
       Waiting(h) /\ (orch[h].polls < MaxPolls \/ orch[h].timerDue >= orch[h].timeoutDate)}}
  \cup
  {orch[i].timeoutDate : i \in {h \in Instances :
       Waiting(h) /\ orch[h].timeoutDate > now}}

\* Time passes: context.df.currentUtcDateTime and Date.now() are read anew at
\* every step, and nothing in the program holds the clock back.
Tick ==
  /\ \E t \in NextTimes : now' = t
  /\ UNCHANGED <<entity, orch, posts, lastResponse, executed, wApprovals, wTurn, fTurn, tcase, tres>>

\* the 'approved' field of a request body: true, false, or not a boolean
\* (missing, or any other JSON value)
ApprovedInputs ==
  {[type |-> "boolean", value |-> TRUE], [type |-> "boolean", value |-> FALSE],
   [type |-> "undefined", value |-> FALSE]}

\* POST {agent}/approve/{sessionId} with {approved, feedback}
\* (createApprovalBySessionEndpoint): 400 unless 'approved' is a boolean;
\* await client.signalEntity(entityId, 'handleApproval', ...) enqueues the
\* one-way signal and the handler waits; 500 when sending the signal fails
ApproveBySession ==
  /\ Len(posts) < MaxDecisions
  /\ \E s \in Sessions, approved \in ApprovedInputs, feedback \in Feedbacks,
        signalSent \in BOOLEAN :
       IF approved.type # "boolean"
       THEN /\ lastResponse' = [endpoint |-> "approve", status |-> 400, sessionId |-> ""]
            /\ posts' = posts
       ELSE IF ~signalSent
       THEN /\ lastResponse' = [endpoint |-> "approve", status |-> 500, sessionId |-> ""]
            /\ posts' = posts
       ELSE /\ posts' = Append(posts,
                 [endpoint |-> "approve",
                  entityName |-> FinancialEntity, sessionId |-> s, approvalId |-> "",
                  decision |-> IF approved.value THEN "approved" ELSE "rejected",
                  humanResponse |-> OrElse(feedback, <<>>),
                  status |-> 200, outcome |-> "inflight", answered |-> FALSE])
            /\ UNCHANGED lastResponse
  /\ UNCHANGED <<now, entity, orch, executed, wApprovals, wTurn, fTurn, tcase, tres>>

\* the handler of ApproveBySession resumes after the await and answers 200,
\* whatever has happened to the signal in the meantime
ApproveBySessionAnswers(n) ==
  /\ n \in 1..Len(posts)
  /\ ~posts[n].answered
  /\ posts[n].endpoint = "approve"
  /\ posts' = [posts EXCEPT ![n].answered = TRUE]
  /\ lastResponse' = [endpoint |-> "approve", status |-> posts[n].status,
                      sessionId |-> posts[n].sessionId]
  /\ UNCHANGED <<now, entity, orch, executed, wApprovals, wTurn, fTurn, tcase, tres>>

\* (variant in which a turn that waits for a decision keeps its session's
\* entity locked: signals are held back until no turn of the session waits)
DeliverApprovalWhenUnlocked(n) ==
  /\ n \in 1..Len(posts)
  /\ posts[n].outcome = "inflight"
  /\ posts[n].entityName = FinancialEntity
  /\ \A i \in Instances :
       ~(orch[i].pc \in {"timer", "getState"} /\ orch[i].sessionId = posts[n].sessionId)
  /\ LET p == posts[n]
         st == entity[p.entityName][p.sessionId]
     IN /\ entity' = [entity EXCEPT ![p.entityName][p.sessionId] =
                        handleApproval(st, p.sessionId, p.decision, p.humanResponse, now)]
        /\ posts' = [posts EXCEPT ![n].outcome =
                        IF handleApprovalResult(st, p.sessionId).success
                        THEN "applied" ELSE "notfound"]
  /\ UNCHANGED <<now, orch, lastResponse, executed, wApprovals, wTurn, fTurn, tcase, tres>>
\* the entity runs 'handleApproval' for a signal sent by ApproveBySession
DeliverApproval(n) ==
  /\ n \in 1..Len(posts)
  /\ posts[n].outcome = "inflight"
  /\ posts[n].entityName = FinancialEntity
  /\ LET p == posts[n]
         st == entity[p.entityName][p.sessionId]
     IN /\ entity' = [entity EXCEPT ![p.entityName][p.sessionId] =
                        handleApproval(st, p.sessionId, p.decision, p.humanResponse, now)]
        /\ posts' = [posts EXCEPT ![n].outcome =
                        IF handleApprovalResult(st, p.sessionId).success
                        THEN "applied" ELSE "notfound"]
  /\ UNCHANGED <<now, orch, lastResponse, executed, wApprovals, wTurn, fTurn, tcase, tres>>

\* GET {agent}/status/{sessionId} (createSessionStatusEndpoint):
\* client.readEntityState(entityId); 404 unless the entity exists
sessionStatus(st) ==
  IF ~st.exists THEN [status |-> 404, error |-> "Session not found"]
  ELSE [status |-> 200, error |-> ""]

SessionStatusGet ==
  /\ \E s \in Sessions :
       lastResponse' = [endpoint |-> "status",
                        status |-> sessionStatus(entity[FinancialEntity][s]).status,
                        sessionId |-> s]
  /\ UNCHANGED <<now, entity, orch, posts, executed, wApprovals, wTurn, fTurn, tcase, tres>>

-----------------------------------------------------------------------------
(* Specification of the human-in-loop orchestrator agent *)

NoResponse == [endpoint |-> "none", status |-> 0, sessionId |-> ""]

Init ==
  /\ now = 0
  /\ entity = [e \in EntityNames |-> [s \in Sessions |-> NoEntity]]
  /\ orch = [i \in Instances |-> IdleOrch]
  /\ posts = <<>>
  /\ lastResponse = NoResponse
  /\ executed = {}
  /\ wApprovals = <<>>
  /\ wTurn = <<>>
  /\ fTurn = <<>>
  /\ tcase = <<>>
  /\ tres = <<>>

\* The scenario of two chat turns: the first one in session s1, asking for the
\* balance or a payment of 5000; the second one in either session, asking for
\* a payment of 9000; both with a one-minute approval deadline; well-formed
\* decisions posted without feedback.
PairScope ==
  /\ \A i \in Instances : Active(i) => orch[i].approvalTimeoutMinutes = 1
  /\ orch[1].sessionId \in {"", "s1"}
  /\ orch[1].toolCalls \in {<<>>, <<BalanceCall>>, <<PaymentCall("5000")>>}
  /\ orch[2].toolCalls \in {<<>>, <<PaymentCall("9000")>>}
  /\ \A n \in 1..Len(posts) : posts[n].humanResponse = <<>>
  /\ lastResponse.status \in {0, 200}

\* a step A within this scenario
Pair(A) == A /\ PairScope'

Next ==
  \/ \E i \in Instances : Pair(StartNew(i))
  \/ \E i \in Instances : StoreUser(i)
  \/ \E i \in Instances : Pair(ProcessMessage(i))
  \/ \E i \in Instances : ProcessMessageFails(i)
  \/ \E i \in Instances : RequestApproval(i)
  \/ \E i \in Instances : ExecuteSafeTool(i)
  \/ \E i \in Instances : TimerFired(i)
  \/ \E i \in Instances : PollState(i)
  \/ \E i \in Instances : ExecuteApprovedTool(i)
  \/ \E i \in Instances : MarkTimeout(i)
  \/ \E i \in Instances : StoreAssistant(i)
  \/ Tick
  \/ Pair(ApproveBySession)
  \/ \E n \in 1..MaxDecisions : ApproveBySessionAnswers(n)
  \/ \E n \in 1..MaxDecisions : DeliverApproval(n)

Spec == Init /\ [][Next]_vars

-----------------------------------------------------------------------------
(* Properties of the human-in-loop orchestrator agent *)

OwnRequest(i) == entity[FinancialEntity][orch[i].sessionId].pendingApprovals[orch[i].myReq]
StartsWith(text, token) == Len(text) > 0 /\ text[1] = token
TimedOut(i) ==
  /\ orch[i].pc = "done"
  /\ orch[i].output.requiresApproval
  /\ StartsWith(orch[i].output.response, "[TIMEOUT] Request timed out after ")

\* C2: a gated call that reaches its deadline without a decision ends as a
\* timeout, and the approval request of that very call is then marked rejected
\* with a timeout reason.
C2_TimeoutRejectsOwnRequest ==
  \A i \in Instances :
    TimedOut(i) =>
      /\ OwnRequest(i).status = "rejected"
      /\ StartsWith(OwnRequest(i).humanResponse, "Timeout after ")

\* C3: when two gated calls of one session wait at the same time, a call that
\* goes on to run its executor does so on the decision recorded for its own
\* approval request.
C3_ConcurrentCallsResolvedByOwnDecision ==
  \A i \in Instances : \A h \in Instances \ {i} :
    ( /\ orch[i].pc = "execApproved"
      /\ orch[h].pc \in {"timer", "getState"}
      /\ orch[h].sessionId = orch[i].sessionId )
    => OwnRequest(i).status = "approved"

\* chatHistory alternates user, assistant, user, assistant, ...
Alternates(history) ==
  \A j \in 1..Len(history) :
    history[j].role = (IF j % 2 = 1 THEN "user" ELSE "assistant")

CompletedTurns(s) == {i \in Instances : orch[i].pc = "done" /\ orch[i].sessionId = s}

\* C5: once N turns of a session have completed one after the other (no turn
\* of the session is running, has failed or overlapped another), the full
\* history of the session holds exactly 2N messages, alternating user then
\* assistant.
C5_TwoMessagesPerCompletedTurn ==
  \A s \in Sessions :
    (\A i \in Instances :
        orch[i].sessionId = s => orch[i].pc = "done" /\ ~orch[i].overlapped)
    => LET history == getFullHistory(entity[FinancialEntity][s]).chatHistory
       IN /\ Len(history) = 2 * Cardinality(CompletedTurns(s))
          /\ Alternates(history)

\* C7: a decision posted for a session that has no matching approval request
\* is answered with a client error, not with a success.
C7_UnknownApprovalIsClientError ==
  \A n \in 1..Len(posts) :
    (posts[n].answered /\ posts[n].outcome = "notfound") => posts[n].status \in 400..499

-----------------------------------------------------------------------------
(* Human-in-loop wrapper agent (HumanInLoopDurableAgentWrapper)             *)

MaxApprovalCalls == 2    \* requests sent to the approval endpoints of the wrapper app
MaxClock == 1            \* the wrapper scenario runs over the instants 0..MaxClock

WInstances == {1}

\* what requestHumanApproval returned to the pass, and the approval request
\* and its status at the moment the pass invoked the executor
NoApprovalResult == [decision |-> "", humanResponse |-> <<>>, instanceId |-> <<>>]
NotInvoked == [req |-> <<>>, reqStatus |-> ""]

IdleTurn ==
  [pc |-> "idle", sessionId |-> "", message |-> <<>>, toolCalls |-> <<>>, k |-> 0,
   reasoning |-> <<>>, toolResults |-> <<>>, response |-> <<>>,
   approvalResult |-> NoApprovalResult, invoked |-> NotInvoked]

\* `approval-${sessionId}-${toolName}-${Date.now()}`
ApprovalIdOf(sessionId, toolName, t) ==
  <<"approval-", sessionId, "-", toolName, "-", ToString(t)>>

UnknownApprovalId == <<"approval-unknown">>

\* this.pendingApprovals.get(approvalId): index in the Map, 0 when absent
WFind(approvals, approvalId) ==
  IF \E j \in 1..Len(approvals) : approvals[j].id = approvalId
  THEN CHOOSE j \in 1..Len(approvals) : approvals[j].id = approvalId
  ELSE 0

\* storePendingApproval: this.pendingApprovals.set(approvalId, approvalData)
storePendingApproval(approvals, approvalId, data) ==
  LET entry == [id |-> approvalId, toolName |-> data.toolName, toolArgs |-> data.toolArgs,
                reasoning |-> data.reasoning, sessionId |-> data.sessionId,
                timestamp |-> data.timestamp, status |-> data.status,
                feedback |-> UndefinedText, decidedAt |-> NoTime,
                executionResult |-> UndefinedText, executedAt |-> NoTime,
                executionError |-> UndefinedText,
                obj |-> <<>>]   \* which object this is: set by the pass that created it
      j == WFind(approvals, approvalId)
  IN IF j # 0 THEN [approvals EXCEPT ![j] = entry] ELSE Append(approvals, entry)

\* requestHumanApproval: the stored Map and what the method returns
requestHumanApproval(approvals, sessionId, toolName, toolArgs, reasoning, t) ==
  LET approvalId == ApprovalIdOf(sessionId, toolName, t) IN
  [approvals |-> storePendingApproval(approvals, approvalId,
                     [toolName |-> toolName, toolArgs |-> toolArgs, reasoning |-> reasoning,
                      sessionId |-> sessionId, timestamp |-> t, status |-> "pending"]),
   decision |-> "approved",
   humanResponse |-> <<"Approval request ">> \o approvalId \o <<" created for ", toolName,
                       ". Waiting for human decision.">>,
   instanceId |-> approvalId]

\* The Map holds references: a caller that read an entry keeps the object
\* while the Map may be given another object under the same id. An entry
\* carries in 'obj' the pass (turn, tool call) whose object literal it is.

\* the entry under approvalId is the object created by tool call k of turn i
TagObject(approvals, approvalId, i, k) ==
  [approvals EXCEPT ![WFind(approvals, approvalId)].obj = <<i, k>>]

\* the Map entry `old` is replaced by another object: every call of
\* processApprovalDecision that waits for its executor and read `old` keeps it
DetachHeld(ps, old) ==
  [n \in 1..Len(ps) |->
     IF /\ ps[n].endpoint = "processApproval"
        /\ ps[n].outcome = "executing"
        /\ ps[n].obj = old.obj
     THEN [ps[n] EXCEPT !.held = <<old>>]
     ELSE ps[n]]

\* the object `approval` of the call of processApprovalDecision made for post
\* p: the Map entry while the Map still holds that object, else the object
\* as it was when the Map was given another one
HeldApproval(approvals, p) ==
  LET j == WFind(approvals, p.approvalId) IN
  IF j # 0 /\ approvals[j].obj = p.obj THEN approvals[j] ELSE p.held[1]

\* processApprovalDecision: approval.status, approval.feedback, approval.decidedAt
SetDecision(approval, approved, feedback, t) ==
  [approval EXCEPT !.status = IF approved THEN "approved" ELSE "rejected",
                   !.feedback = feedback, !.decidedAt = t]

\* getPendingApprovals() of the wrapper
RECURSIVE WPending(_)
WPending(approvals) ==
  IF approvals = <<>> THEN <<>>
  ELSE IF Head(approvals).status = "pending"
       THEN <<Head(approvals)>> \o WPending(Tail(approvals))
       ELSE WPending(Tail(approvals))

\* case 'handleApproval' of the wrapper's entity:
\* state.pendingApprovals.find(a => a.id === approvalId), whatever its status
handleApprovalById(st, approvalId, decision, humanResponse, t) ==
  LET state == GetStateOrInit(st, t)
      j == WFind(state.pendingApprovals, approvalId)
  IN IF j # 0
     THEN [state EXCEPT !.exists = TRUE,
                        !.pendingApprovals[j].status = decision,
                        !.pendingApprovals[j].humanResponse = humanResponse,
                        !.pendingApprovals[j].humanResponseTimestamp = t,
                        !.lastUpdated = t]
     ELSE st

WEnt(i) == entity[FinancialEntity][wTurn[i].sessionId]
WSetEnt(i, st) == [entity EXCEPT ![FinancialEntity][wTurn[i].sessionId] = st]

\* chat endpoint of the wrapper: client.startNew(orchestratorName, {input: {message, sessionId}})
WStartNew(i) ==
  /\ wTurn[i].pc = "idle"
  /\ \A h \in WInstances : h < i => wTurn[h].pc # "idle"
  /\ \E s \in Sessions :
       wTurn' = [wTurn EXCEPT ![i] =
                   [IdleTurn EXCEPT !.pc = "storeUser", !.sessionId = s,
                                    !.message = <<"message", ToString(i)>>]]
  /\ UNCHANGED <<now, entity, orch, posts, lastResponse, executed, wApprovals, fTurn, tcase, tres>>

\* Step 1: yield callEntity(entityId, 'addMessage', {role: 'user', content: message})
WStoreUser(i) ==
  /\ wTurn[i].pc = "storeUser"
  /\ entity' = WSetEnt(i, addMessage(WEnt(i), "user", wTurn[i].message, now))
  /\ wTurn' = [wTurn EXCEPT ![i].pc = "firstCall"]
  /\ UNCHANGED <<now, orch, posts, lastResponse, executed, wApprovals, fTurn, tcase, tres>>

\* executeOpenAIChatWithHumanApproval: the first chat completion
WFirstModelCall(i) ==
  /\ wTurn[i].pc = "firstCall"
  /\ \E r \in ModelResponses :
       wTurn' = [wTurn EXCEPT
                   ![i].toolCalls = r.tool_calls,
                   ![i].k = IF Len(r.tool_calls) > 0 THEN 1 ELSE 0,
                   ![i].reasoning = r.content,
                   ![i].response = IF Len(r.tool_calls) > 0 THEN <<>>
                                   ELSE OrElse(r.content, <<"No response generated">>),
                   ![i].pc = IF Len(r.tool_calls) > 0 THEN "toolCall" ELSE "storeAssistant"]
  /\ UNCHANGED <<now, entity, orch, posts, lastResponse, executed, wApprovals, fTurn, tcase, tres>>
\* the first chat completion fails: the activity throws, the orchestrator rethrows
WFirstModelCallFails(i) ==
  /\ wTurn[i].pc = "firstCall"
  /\ wTurn' = [wTurn EXCEPT ![i].pc = "failed"]
  /\ UNCHANGED <<now, entity, orch, posts, lastResponse, executed, wApprovals, fTurn, tcase, tres>>

WCurrentCall(i) == wTurn[i].toolCalls[wTurn[i].k]

\* the pass moves on to the next tool call, or to the final chat completion
WAdvance(i, content) ==
  LET more == wTurn[i].k < Len(wTurn[i].toolCalls) IN
  [wTurn EXCEPT ![i].toolResults = Append(@, [tool_call_id |-> wTurn[i].k,
                                              content |-> content]),
                ![i].k = IF more THEN @ + 1 ELSE @,
                ![i].approvalResult = NoApprovalResult,
                ![i].invoked = NotInvoked,
                ![i].pc = IF more THEN "toolCall" ELSE "finalCall"]

\* one pass of `for (const toolCall of completion.message.tool_calls)`, up to
\* its first await: a gated call stores its approval request
\* (await this.requestHumanApproval; an entry the Map already holds under the
\* id is replaced by the new object), an ungated call invokes the executor
WToolCall(i) ==
  /\ wTurn[i].pc = "toolCall"
  /\ LET call == WCurrentCall(i) IN
     IF IsGated(call.name)
     THEN LET approvalResult ==
                requestHumanApproval(wApprovals, wTurn[i].sessionId, call.name, call.args,
                  OrElse(wTurn[i].reasoning,
                         <<"The AI wants to execute ", call.name,
                           " with the provided arguments.">>), now)
              replaced == WFind(wApprovals, approvalResult.instanceId)
          IN /\ wApprovals' = TagObject(approvalResult.approvals, approvalResult.instanceId,
                                        i, wTurn[i].k)
             /\ posts' = IF replaced # 0 THEN DetachHeld(posts, wApprovals[replaced])
                         ELSE posts
             /\ wTurn' = [wTurn EXCEPT
                            ![i].approvalResult =
                                [decision |-> approvalResult.decision,
                                 humanResponse |-> approvalResult.humanResponse,
                                 instanceId |-> approvalResult.instanceId],
                            ![i].pc = "approvalReturned"]
     ELSE /\ UNCHANGED <<wApprovals, posts>>
          /\ wTurn' = [wTurn EXCEPT ![i].invoked = [req |-> <<>>, reqStatus |-> "none"],
                                    ![i].pc = "toolRuns"]
  /\ UNCHANGED <<now, entity, orch, lastResponse, executed, fTurn, tcase, tres>>

\* the pass resumes with the approval result: `if (approvalResult.decision ===
\* 'approved')` it invokes the executor (await this.toolRegistry.executeTool),
\* otherwise it reports the rejection
WInvokeApproved(i) ==
  /\ wTurn[i].pc = "approvalReturned"
  /\ LET approvalResult == wTurn[i].approvalResult IN
     IF approvalResult.decision = "approved"
     THEN wTurn' = [wTurn EXCEPT
                      ![i].invoked =
                          [req |-> approvalResult.instanceId,
                           reqStatus |->
                             wApprovals[WFind(wApprovals, approvalResult.instanceId)].status],
                      ![i].pc = "toolRuns"]
     ELSE wTurn' = WAdvance(i,
                     <<"[HUMAN REJECTED] Tool execution was rejected by human. Reason: ">>
                     \o OrElse(approvalResult.humanResponse, <<"No reason provided">>))
  /\ UNCHANGED <<now, entity, orch, posts, lastResponse, executed, wApprovals, fTurn, tcase, tres>>

\* the executor returns to the pass: the result of a gated call is pushed as
\* '[HUMAN APPROVED] ...' and its failure ends the turn; the failure of an
\* ungated call is caught and pushed as an error text
WToolReturns(i) ==
  /\ wTurn[i].pc = "toolRuns"
  /\ LET call == WCurrentCall(i)
         r == executeTool(financialToolRegistry, call.name, call.args, call.behaviour)
         run == [inst |-> i, k |-> wTurn[i].k, sessionId |-> wTurn[i].sessionId,
                 toolName |-> call.name, toolArgs |-> call.args, result |-> r.value,
                 req |-> wTurn[i].invoked.req, reqStatus |-> wTurn[i].invoked.reqStatus]
     IN IF IsGated(call.name)
        THEN IF r.raised
             THEN /\ wTurn' = [wTurn EXCEPT ![i].pc = "failed"]
                  /\ UNCHANGED executed
             ELSE /\ executed' = executed \cup {run}
                  /\ wTurn' = WAdvance(i, <<"[HUMAN APPROVED] ">> \o r.value)
        ELSE IF r.raised
             THEN /\ wTurn' = WAdvance(i, <<"Error executing ", call.name, ": ">> \o r.value)
                  /\ UNCHANGED executed
             ELSE /\ executed' = executed \cup {run}
                  /\ wTurn' = WAdvance(i, r.value)
  /\ UNCHANGED <<now, entity, orch, posts, lastResponse, wApprovals, fTurn, tcase, tres>>

\* content of the second chat completion
FinalContents == {<<"final answer">>, <<>>}

\* "Get final response with tool results"
WFinalModelCall(i) ==
  /\ wTurn[i].pc = "finalCall"
  /\ \E content \in FinalContents :
       wTurn' = [wTurn EXCEPT ![i].response = OrElse(content, <<"No response generated">>),
                              ![i].pc = "storeAssistant"]
  /\ UNCHANGED <<now, entity, orch, posts, lastResponse, executed, wApprovals, fTurn, tcase, tres>>

\* the second chat completion fails: the catch rethrows 'OpenAI processing
\* failed', the activity and the orchestration fail after the tools have run
WFinalModelCallFails(i) ==
  /\ wTurn[i].pc = "finalCall"
  /\ wTurn' = [wTurn EXCEPT ![i].pc = "failed"]
  /\ UNCHANGED <<now, entity, orch, posts, lastResponse, executed, wApprovals, fTurn, tcase, tres>>

\* Step 3: yield callEntity(entityId, 'addMessage', {role: 'assistant', content: response})
WStoreAssistant(i) ==
  /\ wTurn[i].pc = "storeAssistant"
  /\ entity' = WSetEnt(i, addMessage(WEnt(i), "assistant", wTurn[i].response, now))
  /\ wTurn' = [wTurn EXCEPT ![i].pc = "done"]
  /\ UNCHANGED <<now, orch, posts, lastResponse, executed, wApprovals, fTurn, tcase, tres>>

\* GET agent/approvals/{sessionId}: client.readEntityState(entityId), then
\* state.pendingApprovals.filter(a => a.status === 'pending')
approvalsGet(st) ==
  IF st.exists THEN FilterStatus(st.pendingApprovals, TRUE) ELSE <<>>

\* GET agent/approvals/{sessionId} answers 200 with the listing, whether or
\* not the entity exists; the read creates nothing
WApprovalsGet ==
  /\ \E s \in Sessions :
       lastResponse' = [endpoint |-> "approvalsGet", status |-> 200, sessionId |-> s,
                        approvals |-> approvalsGet(entity[FinancialEntity][s])]
  /\ UNCHANGED <<now, entity, orch, posts, executed, wApprovals, wTurn, fTurn, tcase, tres>>

KnownApprovalIds == {wApprovals[j].id : j \in 1..Len(wApprovals)} \cup {UnknownApprovalId}

\* a request body: its 'approved' field, or a body that is not JSON
ApprovalBodies == ApprovedInputs \cup {[type |-> "unparsable", value |-> FALSE]}
\* the 'feedback' field of a request body: a text, the empty text, or missing
FeedbackInputs == Feedbacks \cup {UndefinedText}

\* POST approval/{approvalId} with {approved, feedback}, up to the first
\* await that leaves the handler waiting: 500 when the body cannot be parsed,
\* 400 unless 'approved' is a boolean; then
\* financialAgent.processApprovalDecision(approvalId, approved, feedback) runs
\* up to its own first await: it returns false when the Map has no such id,
\* else it writes status, feedback and decidedAt to the request whatever its
\* status, invokes the executor of an approved tool (await executeTool), and
\* sets the Map entry of a rejected one
ProcessApproval ==
  /\ Len(posts) < MaxApprovalCalls
  /\ \E approvalId \in KnownApprovalIds, approved \in ApprovalBodies,
        feedback \in FeedbackInputs :
       LET j == WFind(wApprovals, approvalId)
           post(status, outcome, answered, reqStatus) ==
             [endpoint |-> "processApproval",
              obj |-> IF j = 0 THEN <<>> ELSE wApprovals[j].obj, held |-> <<>>,
              entityName |-> "", sessionId |-> "", approvalId |-> approvalId,
              decision |-> IF approved.value THEN "approved" ELSE "rejected",
              humanResponse |-> feedback, status |-> status, outcome |-> outcome,
              answered |-> answered, reqStatus |-> reqStatus]
           answer(status) == [endpoint |-> "processApproval", status |-> status,
                              sessionId |-> ""]
       IN IF approved.type = "unparsable"
          THEN /\ lastResponse' = answer(500)
               /\ UNCHANGED <<posts, wApprovals>>
          ELSE IF approved.type # "boolean"
          THEN /\ lastResponse' = answer(400)
               /\ UNCHANGED <<posts, wApprovals>>
          ELSE IF j = 0
          THEN /\ posts' = Append(posts, post(404, "notfound", FALSE, ""))
               /\ UNCHANGED <<lastResponse, wApprovals>>
          ELSE LET decided == SetDecision(wApprovals[j], approved.value, feedback, now) IN
               /\ wApprovals' = [wApprovals EXCEPT ![j] = decided]
               /\ posts' = Append(posts,
                              post(200, IF approved.value THEN "executing" ELSE "applied",
                                   FALSE, decided.status))
               /\ UNCHANGED lastResponse
  /\ UNCHANGED <<now, entity, orch, executed, wTurn, fTurn, tcase, tres>>

\* what the executor does when processApprovalDecision invokes it
ExecutorOutcomes == {"ok", "throwError"}

\* the executor invoked by processApprovalDecision returns: its result is
\* written to the object the call read before the await
\* (approval.executionResult, approval.executedAt), or the error it let
\* through (approval.executionError), and that object is put into the Map
\* under the id (this.pendingApprovals.set(approvalId, approval)), in the
\* place of whatever the Map holds there by then
ProcessApprovalReturns(n) ==
  /\ n \in 1..Len(posts)
  /\ posts[n].endpoint = "processApproval"
  /\ posts[n].outcome = "executing"
  /\ \E behaviour \in ExecutorOutcomes :
       LET j == WFind(wApprovals, posts[n].approvalId)
           approval == HeldApproval(wApprovals, posts[n])
           r == executeTool(financialToolRegistry, approval.toolName, approval.toolArgs,
                            behaviour)
           written == IF r.raised
                      THEN [approval EXCEPT !.executionError = r.value]
                      ELSE [approval EXCEPT !.executionResult = r.value,
                                            !.executedAt = now]
           others == IF j # 0 /\ wApprovals[j].obj # approval.obj
                     THEN DetachHeld(posts, wApprovals[j]) ELSE posts
       IN /\ wApprovals' = IF j # 0 THEN [wApprovals EXCEPT ![j] = written]
                           ELSE Append(wApprovals, written)
          /\ posts' = [others EXCEPT ![n].outcome = "applied"]
          /\ IF r.raised
             THEN UNCHANGED executed
             ELSE executed' = executed \cup
                    {[inst |-> 0, k |-> n, sessionId |-> approval.sessionId,
                      toolName |-> approval.toolName, toolArgs |-> approval.toolArgs,
                      result |-> r.value, req |-> posts[n].approvalId,
                      reqStatus |-> posts[n].reqStatus]}
  /\ UNCHANGED <<now, entity, orch, lastResponse, wTurn, fTurn, tcase, tres>>

\* the handler of ProcessApproval resumes once processApprovalDecision has
\* returned (for an id the first agent does not hold, once the other agents
\* have been asked as well): 200 when an agent processed the decision, else 404
ProcessApprovalAnswers(n) ==
  /\ n \in 1..Len(posts)
  /\ posts[n].endpoint = "processApproval"
  /\ ~posts[n].answered
  /\ posts[n].outcome \in {"applied", "notfound"}
  /\ posts' = [posts EXCEPT ![n].answered = TRUE]
  /\ lastResponse' = [endpoint |-> "processApproval", status |-> posts[n].status,
                      sessionId |-> ""]
  /\ UNCHANGED <<now, entity, orch, executed, wApprovals, wTurn, fTurn, tcase, tres>>

\* the 'decision' field of a request body: 'approved', 'rejected', or anything else
DecisionInputs == {"approved", "rejected", "later"}
\* the 'approvalId' field of a request body: an id, or missing
ApprovalIdInputs == KnownApprovalIds \cup {<<>>}
HumanResponseInputs == {UndefinedText, <<"not authorized">>}

\* POST agent/approvals/{sessionId} with {approvalId, decision, humanResponse}
\* (createApprovalEndpoint): 400 unless approvalId is given and decision is
\* 'approved' or 'rejected'; await client.signalEntity(entityId,
\* 'handleApproval', {approvalId, decision, humanResponse}) enqueues the
\* one-way signal and the handler waits; 500 when sending the signal fails
WApprovalPost ==
  /\ Len(posts) < MaxApprovalCalls
  /\ \E s \in Sessions, approvalId \in ApprovalIdInputs, decision \in DecisionInputs,
        humanResponse \in HumanResponseInputs, signalSent \in BOOLEAN :
       IF approvalId = <<>> \/ decision \notin {"approved", "rejected"}
       THEN /\ lastResponse' = [endpoint |-> "approvals", status |-> 400, sessionId |-> ""]
            /\ posts' = posts
       ELSE IF ~signalSent
       THEN /\ lastResponse' = [endpoint |-> "approvals", status |-> 500, sessionId |-> ""]
            /\ posts' = posts
       ELSE /\ posts' = Append(posts,
                 [endpoint |-> "approvals",
                  entityName |-> FinancialEntity, sessionId |-> s, approvalId |-> approvalId,
                  decision |-> decision, humanResponse |-> humanResponse,
                  status |-> 200, outcome |-> "inflight", answered |-> FALSE])
            /\ UNCHANGED lastResponse
  /\ UNCHANGED <<now, entity, orch, executed, wApprovals, wTurn, fTurn, tcase, tres>>

\* the handler of WApprovalPost resumes after the await and answers 200,
\* whatever has happened to the signal in the meantime
WApprovalPostAnswers(n) ==
  /\ n \in 1..Len(posts)
  /\ ~posts[n].answered
  /\ posts[n].endpoint = "approvals"
  /\ posts' = [posts EXCEPT ![n].answered = TRUE]
  /\ lastResponse' = [endpoint |-> "approvals", status |-> posts[n].status,
                      sessionId |-> posts[n].sessionId]
  /\ UNCHANGED <<now, entity, orch, executed, wApprovals, wTurn, fTurn, tcase, tres>>

\* a request to agent/approvals/{sessionId} whose method is neither GET nor
\* POST is answered 405 by the handler
WApprovalsOtherMethod ==
  /\ Len(posts) < MaxApprovalCalls
  /\ lastResponse' = [endpoint |-> "approvals", status |-> 405, sessionId |-> ""]
  /\ UNCHANGED <<now, entity, orch, posts, executed, wApprovals, wTurn, fTurn, tcase, tres>>

\* the wrapper's entity runs 'handleApproval' for a signal sent by WApprovalPost
DeliverApprovalById(n) ==
  /\ n \in 1..Len(posts)
  /\ posts[n].endpoint = "approvals"
  /\ posts[n].outcome = "inflight"
  /\ LET p == posts[n]
         st == entity[p.entityName][p.sessionId]
     IN /\ entity' = [entity EXCEPT ![p.entityName][p.sessionId] =
                        handleApprovalById(st, p.approvalId, p.decision, p.humanResponse, now)]
        /\ posts' = [posts EXCEPT ![n].outcome =
                        IF WFind(st.pendingApprovals, p.approvalId) # 0
                        THEN "applied" ELSE "notfound"]
  /\ UNCHANGED <<now, orch, lastResponse, executed, wApprovals, wTurn, fTurn, tcase, tres>>

\* the wall clock of the wrapper scenario
WTick ==
  /\ now < MaxClock
  /\ now' = now + 1
  /\ UNCHANGED <<entity, orch, posts, lastResponse, executed, wApprovals, wTurn, fTurn, tcase, tres>>

InitW ==
  /\ now = 0
  /\ entity = [e \in EntityNames |-> [s \in Sessions |-> NoEntity]]
  /\ orch = [i \in Instances |-> IdleOrch]
  /\ posts = <<>>
  /\ lastResponse = NoResponse
  /\ executed = {}
  /\ wApprovals = <<>>
  /\ wTurn = [i \in WInstances |-> IdleTurn]
  /\ fTurn = <<>>
  /\ tcase = <<>>
  /\ tres = <<>>

\* The scenario of the wrapper: one chat turn, in session s1, that may ask
\* for the balance or for a payment of 5000; decisions are posted to s1, one
\* request after the answer to the one before; the approvals of s1 are read.
WScope ==
  /\ \A i \in WInstances :
       /\ wTurn[i].sessionId \in {"", "s1"}
       /\ wTurn[i].toolCalls \in {<<>>, <<BalanceCall>>, <<PaymentCall("5000")>>}
  /\ \A n \in 1..Len(posts) : posts[n].sessionId \in {"", "s1"}
  /\ \A n \in 1..(Len(posts) - 1) : posts[n].answered
  /\ lastResponse.sessionId \in {"", "s1"}

\* a step A within this scenario
InWScope(A) == A /\ WScope'

NextW ==
  \/ \E i \in WInstances : InWScope(WStartNew(i))
  \/ \E i \in WInstances : WStoreUser(i)
  \/ \E i \in WInstances : InWScope(WFirstModelCall(i))
  \/ \E i \in WInstances : WFirstModelCallFails(i)
  \/ \E i \in WInstances : WToolCall(i)
  \/ \E i \in WInstances : WInvokeApproved(i)
  \/ \E i \in WInstances : WToolReturns(i)
  \/ \E i \in WInstances : WFinalModelCall(i)
  \/ \E i \in WInstances : WFinalModelCallFails(i)
  \/ \E i \in WInstances : WStoreAssistant(i)
  \/ InWScope(ProcessApproval)
  \/ \E n \in 1..MaxApprovalCalls : ProcessApprovalReturns(n)
  \/ \E n \in 1..MaxApprovalCalls : ProcessApprovalAnswers(n)
  \/ InWScope(WApprovalPost)
  \/ \E n \in 1..MaxApprovalCalls : WApprovalPostAnswers(n)
  \/ WApprovalsOtherMethod
  \/ InWScope(WApprovalsGet)
  \/ \E n \in 1..MaxApprovalCalls : DeliverApprovalById(n)
  \/ WTick

SpecW == InitW /\ [][NextW]_vars

-----------------------------------------------------------------------------
(* Properties of the human-in-loop wrapper agent *)

\* C1: the executor of a gated tool runs only on an approved decision for the
\* approval request of that call; in particular it never runs while that
\* request is still pending.
C1_GatedExecutorOnlyAfterApproval ==
  \A x \in executed : IsGated(x.toolName) => x.reqStatus = "approved"

\* C4: whenever the executor of a gated tool has been invoked for a call, the
\* conversation store of the session holds an approval request for that call.
C4_RequestInStoreBeforeExecutor ==
  \A x \in executed :
    IsGated(x.toolName) =>
      \E j \in 1..Len(entity[FinancialEntity][x.sessionId].pendingApprovals) :
        LET a == entity[FinancialEntity][x.sessionId].pendingApprovals[j]
        IN a.toolName = x.toolName /\ a.toolArgs = x.toolArgs

\* C6: once an approval request is approved or rejected, no later operation
\* changes its status or its recorded response.
C6_DecidedApprovalIsFinal ==
  [][\A j \in 1..Len(wApprovals) :
        wApprovals[j].status # "pending" =>
          /\ j <= Len(wApprovals')
          /\ wApprovals'[j].status = wApprovals[j].status
          /\ wApprovals'[j].feedback = wApprovals[j].feedback]_vars
-----------------------------------------------------------------------------
(* Simple agents: the app of several agents with per-agent function names  *)
(* ("simple": DurableOpenAiAgentOrchestrator, DurableOpenAiAgentWrapper)    *)
(* and the app of one AzureFoundryAgentOrchestrator agent ("foundry")       *)

Apps == {"simple", "foundry"}
\* the agents an app constructs: the Foundry app builds one agent, MathAgent
AgentsOf(app) == IF app = "foundry" THEN {MathAgent} ELSE Agents
FInstances == {1, 2}

IdleF ==
  [pc |-> "idle", agent |-> <<>>, entityName |-> <<>>, sessionId |-> "",
   message |-> <<>>, response |-> <<>>,
   bodySessionId |-> Undefined,  \* history: body.sessionId of the chat request
   urlSessionId |-> Undefined]   \* history: request.params.sessionId of the chat request

\* the entity name an agent's orchestrator addresses
AgentEntity(app, agent) == IF app = "foundry" THEN FoundryEntity ELSE EntityNameOf(agent)

\* (variant that registers every agent's activity under the same name)
ActivityNameFixed(app, agent) == <<"processChatActivity">>
\* the name an agent registers its chat activity under and its orchestrator
\* calls: this.activityName = `${agentId}ProcessChatActivity`; the Foundry
\* class uses this.activityName = 'processChatActivity'
ActivityName(app, agent) ==
  IF app = "foundry" THEN <<"processChatActivity">>
  ELSE AgentId(agent) \o <<"ProcessChatActivity">>

\* the agent whose configuration and tool registry the chat activity runs
\* with: callActivity(activityName) dispatches to the handler registered under
\* that name, which calls executeOpenAIChat on the agent that registered it
\* (this.executeOpenAIChat, self.executeOpenAIChat)
ActivityAgent(app, agent) ==
  CHOOSE a \in AgentsOf(app) : ActivityName(app, a) = ActivityName(app, agent)

\* 'clearHistory' of the Foundry entity
clearHistory(st, t) ==
  LET state == GetStateOrInit(st, t) IN
  [state EXCEPT !.exists = TRUE, !.chatHistory = <<>>, !.lastUpdated = t]

FEnt(i) == entity[fTurn.turn[i].entityName][fTurn.turn[i].sessionId]
FSetEnt(i, st) ==
  [entity EXCEPT ![fTurn.turn[i].entityName][fTurn.turn[i].sessionId] = st]

\* chat endpoint of one agent: client.startNew(orchestratorName, {input: {message, sessionId}})
FStartNew(i) ==
  /\ fTurn.app \in Apps
  /\ fTurn.turn[i].pc = "idle"
  /\ \A h \in FInstances : h < i => fTurn.turn[h].pc # "idle"
  /\ \E a \in AgentsOf(fTurn.app), s \in Sessions :
       fTurn' = [fTurn EXCEPT !.turn[i] =
                   [IdleF EXCEPT !.pc = "storeUser", !.agent = a,
                                 !.entityName = AgentEntity(fTurn.app, a),
                                 !.sessionId = s,
                                 !.message = <<"message", ToString(i)>>]]
  /\ UNCHANGED <<now, entity, orch, posts, lastResponse, executed, wApprovals, wTurn, tcase, tres>>

\* Step 1: yield callEntity(entityId, 'addMessage', {role: 'user', content: message})
FStoreUser(i) ==
  /\ fTurn.turn[i].pc = "storeUser"
  /\ entity' = FSetEnt(i, addMessage(FEnt(i), "user", fTurn.turn[i].message, now))
  /\ fTurn' = [fTurn EXCEPT !.turn[i].pc = "processChat"]
  /\ UNCHANGED <<now, orch, posts, lastResponse, executed, wApprovals, wTurn, tcase, tres>>

\* Step 2: yield callActivity(activityName, ...) returns the answer text
FProcessChat(i) ==
  /\ fTurn.turn[i].pc = "processChat"
  /\ fTurn' = [fTurn EXCEPT
                 !.turn[i].response =
                     <<"answer of ">> \o ActivityAgent(fTurn.app, fTurn.turn[i].agent),
                 !.turn[i].pc = "storeAssistant"]
  /\ UNCHANGED <<now, entity, orch, posts, lastResponse, executed, wApprovals, wTurn, tcase, tres>>

\* Step 2 when the activity throws: the orchestrator rethrows
FProcessChatFails(i) ==
  /\ fTurn.turn[i].pc = "processChat"
  /\ fTurn' = [fTurn EXCEPT !.turn[i].pc = "failed"]
  /\ UNCHANGED <<now, entity, orch, posts, lastResponse, executed, wApprovals, wTurn, tcase, tres>>

\* Step 3: yield callEntity(entityId, 'addMessage', {role: 'assistant', content: response})
FStoreAssistant(i) ==
  /\ fTurn.turn[i].pc = "storeAssistant"
  /\ entity' = FSetEnt(i, addMessage(FEnt(i), "assistant", fTurn.turn[i].response, now))
  /\ fTurn' = [fTurn EXCEPT !.turn[i].pc = "done"]
  /\ UNCHANGED <<now, orch, posts, lastResponse, executed, wApprovals, wTurn, tcase, tres>>

\* a durable client signals 'clearHistory' to the Foundry entity of one session;
\* lastResponse records the operation for the history
FClearHistory ==
  /\ fTurn.app = "foundry"
  /\ \E s \in Sessions :
       /\ entity' = [entity EXCEPT ![FoundryEntity][s] = clearHistory(@, now)]
       /\ lastResponse' = [endpoint |-> "clearHistory", status |-> 0, sessionId |-> s]
  /\ UNCHANGED <<now, orch, posts, executed, wApprovals, wTurn, fTurn, tcase, tres>>

\* the wall clock of the simple-agent scenario
FTick ==
  /\ fTurn.app \in Apps
  /\ now < MaxClock
  /\ now' = now + 1
  /\ UNCHANGED <<entity, orch, posts, lastResponse, executed, wApprovals, wTurn, fTurn, tcase, tres>>

\* The scenario in which two sessions are compared also runs the human-in-loop
\* orchestrator agent: a first turn in session s1 that may request a payment
\* with a one-minute approval deadline; a second turn in session s2, started
\* once the first one has asked for approval, that the model answers directly;
\* and well-formed decisions posted to s1 one after the other, without
\* feedback, and accepted by the endpoint.
HumanInLoopApp == "humanInLoop"
HilScope ==
  /\ \A i \in Instances : Active(i) => orch[i].approvalTimeoutMinutes = 1
  /\ orch[1].sessionId \in {"", "s1"}
  /\ orch[1].toolCalls \in {<<>>, <<PaymentCall("5000")>>}
  /\ orch[2].toolCalls = <<>> /\ orch[2].sessionId \in {"", "s2"}
  /\ Active(2) => orch[1].myReq # 0
  /\ \A n \in 1..Len(posts) :
       posts[n].humanResponse = <<>> /\ posts[n].sessionId = "s1"
  /\ \A n \in 1..(Len(posts) - 1) : posts[n].answered
  /\ lastResponse.status \in {0, 200}

InitAgents ==
  /\ now = 0
  /\ entity = [e \in EntityNames |-> [s \in Sessions |-> NoEntity]]
  /\ orch = [i \in Instances |-> IdleOrch]
  /\ posts = <<>>
  /\ lastResponse = NoResponse
  /\ executed = {}
  /\ wApprovals = <<>>
  /\ wTurn = <<>>
  /\ fTurn \in {[app |-> a, turn |-> [i \in FInstances |-> IdleF]] :
                  a \in Apps \cup {HumanInLoopApp}}
  /\ tcase = <<>>
  /\ tres = <<>>

\* a step A of the human-in-loop orchestrator agent within this scenario
Hil(A) == fTurn.app = HumanInLoopApp /\ A /\ HilScope'

NextAgents ==
  \/ \E i \in FInstances : FStartNew(i)
  \/ \E i \in FInstances : FStoreUser(i)
  \/ \E i \in FInstances : FProcessChat(i)
  \/ \E i \in FInstances : FProcessChatFails(i)
  \/ \E i \in FInstances : FStoreAssistant(i)
  \/ FClearHistory
  \/ FTick
  \/ \E i \in Instances : Hil(StartNew(i))
  \/ \E i \in Instances : Hil(StoreUser(i))
  \/ \E i \in Instances : Hil(ProcessMessage(i))
  \/ \E i \in Instances : Hil(ProcessMessageFails(i))
  \/ \E i \in Instances : Hil(RequestApproval(i))
  \/ \E i \in Instances : Hil(TimerFired(i))
  \/ \E i \in Instances : Hil(PollState(i))
  \/ \E i \in Instances : Hil(ExecuteApprovedTool(i))
  \/ \E i \in Instances : Hil(MarkTimeout(i))
  \/ \E i \in Instances : Hil(StoreAssistant(i))
  \/ Hil(Tick)
  \/ Hil(ApproveBySession)
  \/ \E n \in 1..MaxDecisions : Hil(ApproveBySessionAnswers(n))
  \/ \E n \in 1..MaxDecisions : Hil(DeliverApproval(n))

SpecAgents == InitAgents /\ [][NextAgents]_vars
-----------------------------------------------------------------------------
(* Properties of agents and sessions *)

\* the step is an operation addressed to session s: a step of a turn of that
\* session, the delivery of a decision posted for it, or a clear signalled to it
ActsOn(s) ==
  \/ \E i \in Instances : orch'[i] # orch[i] /\ orch[i].sessionId = s
  \/ \E n \in 1..Len(posts) : posts'[n] # posts[n] /\ posts[n].sessionId = s
  \/ \E i \in FInstances : fTurn'.turn[i] # fTurn.turn[i] /\ fTurn.turn[i].sessionId = s
  \/ /\ fTurn' = fTurn /\ orch' = orch /\ posts' = posts
     /\ lastResponse'.endpoint = "clearHistory" /\ lastResponse'.sessionId = s

\* C8: an operation on one session of an agent (message append, approval
\* request, approval decision, clear) leaves the messages, approvals and
\* timestamps of every other session of that agent unchanged, also while turns
\* of two sessions run concurrently.
C8_SessionsAreIsolated ==
  [][\A e \in EntityNames : \A s \in Sessions :
        entity'[e][s] # entity[e][s] => ActsOn(s)]_vars

\* two concurrent turns of one agent on two sessions have each requested an
\* approval; the request of one session is decided, the other is still pending
C8_Witness ==
  /\ fTurn.app = HumanInLoopApp
  /\ orch[1].myReq # 0 /\ orch[2].pc = "done"
  /\ orch[1].sessionId # orch[2].sessionId
  /\ OwnRequest(1).status \in {"approved", "rejected"}
  /\ Len(Ent(2).chatHistory) = 2
  /\ Len(Ent(1).chatHistory) = 1
  /\ Ent(2).pendingApprovals = <<>>

\* C9: when several agents of one function app are given the same sessionId,
\* the transcript an agent keeps for that id holds only messages of turns sent
\* to that agent.
C9_AgentsKeepOwnTranscripts ==
  \A i \in FInstances :
    fTurn.turn[i].pc # "idle" =>
      \A j \in 1..Len(FEnt(i).chatHistory) :
        FEnt(i).chatHistory[j].role = "user" =>
          \E h \in FInstances :
            /\ fTurn.turn[h].agent = fTurn.turn[i].agent
            /\ fTurn.turn[h].message = FEnt(i).chatHistory[j].content

\* two agents of the multi-agent app were sent a turn with the same sessionId
\* and each transcript holds the one message sent to its agent
C9_Witness ==
  /\ fTurn.app = "simple"
  /\ fTurn.turn[1].agent = MathAgent /\ fTurn.turn[2].agent = WeatherAgent
  /\ fTurn.turn[1].sessionId = "s1" /\ fTurn.turn[2].sessionId = "s1"
  /\ fTurn.turn[1].pc = "processChat" /\ fTurn.turn[2].pc = "processChat"
  /\ Len(FEnt(1).chatHistory) = 1 /\ Len(FEnt(2).chatHistory) = 1
-----------------------------------------------------------------------------
(* Tool registry on its own: registrations followed by one executeTool call *)

MaxRegistrations == 2

ToolDefs ==
  {[name |-> "checkAccountBalance", description |-> <<"Check account balance">>,
    parameters |-> <<Param("accountNumber")>>,
    handler |-> "balance"],
   [name |-> "makePayment", description |-> <<"Transfer money">>,
    parameters |-> <<Param("fromAccount"), Param("toAccount"), NumberParam("amount")>>,
    handler |-> "payment"],
   [name |-> "makePayment", description |-> <<"Pay">>,
    parameters |-> <<NumberParam("amount")>>, handler |-> "payment2"],
   [name |-> "generateReport", description |-> <<"Generate financial report">>,
    parameters |-> <<Param("accountNumber"), OptionalParam("period"), PlainParam("pages")>>,
    handler |-> "report"]}

ToolNames == {"checkAccountBalance", "makePayment"}

ToolArgs ==
  {<< <<"accountNumber", "12345">> >>,
   << <<"amount", "5000">>, <<"toAccount", "67890">>, <<"fromAccount", "12345">> >>,
   <<>>}

Behaviours == {"ok", "throwError", "throwString"}

NotCalled == [called |-> FALSE, raised |-> FALSE, value |-> <<>>]

InitTool ==
  /\ now = 0
  /\ entity = [e \in EntityNames |-> [s \in Sessions |-> NoEntity]]
  /\ orch = [i \in Instances |-> IdleOrch]
  /\ posts = <<>>
  /\ lastResponse = NoResponse
  /\ executed = {}
  /\ wApprovals = <<>>
  /\ wTurn = <<>>
  /\ fTurn = <<>>
  /\ tcase \in {[reg |-> <<>>, registrations |-> 0, calls |-> <<>>,
                 schemaRead |-> FALSE, schema |-> <<>>, callsAtSchema |-> <<>>,
                 healthRead |-> FALSE, availableTools |-> <<>>, toolCount |-> 0,
                 callsAtHealth |-> <<>>, regAtExec |-> <<>>, callsAtExec |-> <<>>,
                 toolName |-> n, args |-> a,
                 behaviour |-> b] : n \in ToolNames, a \in ToolArgs, b \in Behaviours}
  /\ tres = NotCalled

\* toolRegistry.registerTool(toolDef)
\* (calls: the registerTool calls since the registry was last empty; the
\* ...At... fields keep the calls a read or an execution has seen)
RegisterTool ==
  /\ tcase.registrations < MaxRegistrations
  /\ \E toolDef \in ToolDefs :
       tcase' = [tcase EXCEPT !.reg = registerTool(@, toolDef), !.registrations = @ + 1,
                              !.calls = Append(@, toolDef)]
  /\ UNCHANGED <<now, entity, orch, posts, lastResponse, executed, wApprovals, wTurn, fTurn, tres>>

\* await toolRegistry.executeTool(toolName, args)
CallExecuteTool ==
  /\ LET r == executeTool(tcase.reg, tcase.toolName, tcase.args, tcase.behaviour)
     IN tres' = [called |-> TRUE, raised |-> r.raised, value |-> r.value]
  /\ tcase' = [tcase EXCEPT !.regAtExec = tcase.reg, !.callsAtExec = tcase.calls]
  /\ UNCHANGED <<now, entity, orch, posts, lastResponse, executed, wApprovals, wTurn, fTurn>>

\* tools: this.toolRegistry.getOpenAISchema()
CallGetOpenAISchema ==
  /\ tcase' = [tcase EXCEPT !.schema = getOpenAISchema(tcase.reg), !.schemaRead = TRUE,
                            !.callsAtSchema = tcase.calls]
  /\ UNCHANGED <<now, entity, orch, posts, lastResponse, executed, wApprovals, wTurn, fTurn, tres>>

\* health endpoint: availableTools: getToolNames(), toolCount: getToolCount()
HealthEndpoint ==
  /\ tcase' = [tcase EXCEPT !.availableTools = getToolNames(tcase.reg),
                            !.toolCount = getToolCount(tcase.reg),
                            !.healthRead = TRUE,
                            !.callsAtHealth = tcase.calls]
  /\ UNCHANGED <<now, entity, orch, posts, lastResponse, executed, wApprovals, wTurn, fTurn, tres>>

\* this.tools.clear()
clearTools(reg) == <<>>

\* toolRegistry.clearTools()
ClearTools ==
  /\ tcase' = [tcase EXCEPT !.reg = clearTools(@), !.calls = <<>>]
  /\ UNCHANGED <<now, entity, orch, posts, lastResponse, executed, wApprovals, wTurn, fTurn, tres>>

NextTool ==
  RegisterTool \/ ClearTools \/ CallGetOpenAISchema \/ HealthEndpoint \/ CallExecuteTool

SpecTool == InitTool /\ [][NextTool]_vars

\* C10: when the executor of a registered tool throws or rejects, executeTool
\* does not raise; it returns "Error executing <name>: " followed by the text
\* of the thrown value ("Error: <message>" for an Error, the string itself
\* for a thrown string).
C10_ExecutorFailureBecomesText ==
  (tres.called /\ HasTool(tcase.regAtExec, tcase.toolName) /\ tcase.behaviour # "ok")
  => /\ ~tres.raised
     /\ tres.value =
          <<"Error executing ", tcase.toolName, ": ">> \o
          (IF tcase.behaviour = "throwError" THEN <<"Error: ", "boom">> ELSE <<"boom">>)

\* executeTool was called on a registered tool whose executor threw an Error
C10_Witness ==
  /\ tres.called
  /\ HasTool(tcase.regAtExec, tcase.toolName)
  /\ tcase.behaviour = "throwError"
  /\ Len(tcase.callsAtExec) = MaxRegistrations

\* C19: executeTool hands the executor one positional argument per declared
\* parameter, in declaration order, whatever the key order of the argument
\* mapping: the value the mapping holds under the parameter's name, or
\* undefined when the mapping has no such key.  So makePayment(fromAccount,
\* toAccount, amount) called with {amount, toAccount, fromAccount} receives
\* (fromAccount, toAccount, amount).
C19_ArgumentsFollowDeclarationOrder ==
  (tres.called /\ HasTool(tcase.regAtExec, tcase.toolName) /\ tcase.behaviour = "ok")
  => LET tool == GetTool(tcase.regAtExec, tcase.toolName)
         n == Len(tool.parameters)
         keys == {tcase.args[h][1] : h \in 1..Len(tcase.args)}
     IN /\ ~tres.raised
        /\ Len(tres.value) = n + 3
        /\ tres.value[1] = tool.handler
        /\ \A j \in 1..n :
             /\ tool.parameters[j].name \in keys
                => \E h \in 1..Len(tcase.args) :
                     /\ tcase.args[h][1] = tool.parameters[j].name
                     /\ tres.value[2 + j] = tcase.args[h][2]
             /\ tool.parameters[j].name \notin keys => tres.value[2 + j] = Undefined
        /\ (tool.handler = "payment" /\ Len(tcase.args) = 3)
           => tres.value = <<"payment", "(", "12345", "67890", "5000", ")">>

\* makePayment was executed with a mapping whose keys are in another order
\* than the declared parameters
C19_Witness ==
  /\ tres.called
  /\ HasTool(tcase.regAtExec, tcase.toolName)
  /\ tcase.behaviour = "ok"
  /\ GetTool(tcase.regAtExec, tcase.toolName).handler = "payment"
  /\ Len(tcase.args) = 3
  /\ tcase.args[1][1] = "amount"
  /\ tres.value = <<"payment", "(", "12345", "67890", "5000", ")">>

\* the registered names are pairwise distinct
DistinctNames(calls) ==
  \A a, b \in 1..Len(calls) : a # b => calls[a].name # calls[b].name

\* C20: after registerTool calls with distinct names, the schema handed to
\* the model has one entry per call, in registration order, each with the
\* name of its tool, the declared parameters (name, type, description) in
\* declaration order, and required = the names of the parameters whose
\* required flag is not false, in declaration order.
C20_SchemaListsRegisteredTools ==
  (tcase.schemaRead /\ DistinctNames(tcase.callsAtSchema))
  => /\ Len(tcase.schema) = Len(tcase.callsAtSchema)
     /\ \A j \in 1..Len(tcase.callsAtSchema) :
          LET f == tcase.schema[j].function
              d == tcase.callsAtSchema[j]
              flagged == {h \in 1..Len(d.parameters) : d.parameters[h].required # "false"}
          IN /\ tcase.schema[j].type = "function"
             /\ f.name = d.name
             /\ f.description = d.description
             /\ Len(f.parameters.properties) = Len(d.parameters)
             /\ \A h \in 1..Len(d.parameters) :
                  /\ f.parameters.properties[h].name = d.parameters[h].name
                  /\ f.parameters.properties[h].type = d.parameters[h].type
                  /\ f.parameters.properties[h].description = d.parameters[h].description
             /\ Len(f.parameters.required) = Cardinality(flagged)
             /\ \A h \in flagged :
                  \E q \in 1..Len(f.parameters.required) :
                    /\ f.parameters.required[q] = d.parameters[h].name
                    /\ q = Cardinality({g \in flagged : g <= h})

\* the schema was read after two registrations with distinct names, one of
\* them with an optional parameter and a parameter without a required flag
C20_Witness ==
  /\ tcase.schemaRead
  /\ Len(tcase.callsAtSchema) = 2
  /\ DistinctNames(tcase.callsAtSchema)
  /\ tcase.callsAtSchema[2].name = "generateReport"
  /\ tcase.schema[2].function.parameters.required = <<"accountNumber", "pages">>

\* the definition passed by the last registerTool call for a name
LatestDef(calls, toolName) ==
  calls[CHOOSE j \in 1..Len(calls) :
          /\ calls[j].name = toolName
          /\ \A h \in (j+1)..Len(calls) : calls[h].name # toolName]

RegisteredNames(calls) == {calls[j].name : j \in 1..Len(calls)}

\* C21: registering a name again replaces its definition: every registered
\* name appears exactly once in the name list and in the schema, the schema
\* entry is the one of the latest definition, the tool count is the number of
\* distinct names, and executeTool runs the latest executor.
C21_ReRegistrationReplaces ==
  /\ tcase.healthRead
     => /\ tcase.toolCount = Cardinality(RegisteredNames(tcase.callsAtHealth))
        /\ Len(tcase.availableTools) = tcase.toolCount
        /\ \A n \in RegisteredNames(tcase.callsAtHealth) :
             Cardinality({j \in 1..Len(tcase.availableTools) :
                            tcase.availableTools[j] = n}) = 1
  /\ tcase.schemaRead
     => \A n \in RegisteredNames(tcase.callsAtSchema) :
          /\ Cardinality({j \in 1..Len(tcase.schema) :
                            tcase.schema[j].function.name = n}) = 1
          /\ \A j \in 1..Len(tcase.schema) :
               tcase.schema[j].function.name = n
               => tcase.schema[j].function.description
                    = LatestDef(tcase.callsAtSchema, n).description
  /\ (tres.called /\ tcase.toolName \in RegisteredNames(tcase.callsAtExec)
        /\ tcase.behaviour = "ok")
     => /\ ~tres.raised
        /\ tres.value[1] = LatestDef(tcase.callsAtExec, tcase.toolName).handler

\* makePayment was registered twice with different executors, the health
\* endpoint and the schema were read and the tool was executed
C21_Witness ==
  /\ tres.called
  /\ tcase.healthRead
  /\ tcase.schemaRead
  /\ tcase.behaviour = "ok"
  /\ tcase.callsAtSchema = tcase.callsAtExec
  /\ tcase.callsAtHealth = tcase.callsAtExec
  /\ Len(tcase.callsAtExec) = 2
  /\ tcase.callsAtExec[1].name = tcase.toolName
  /\ tcase.callsAtExec[2].name = tcase.toolName
  /\ tcase.callsAtExec[1].handler # tcase.callsAtExec[2].handler
  /\ tcase.toolCount = 1

-----------------------------------------------------------------------------
(* One turn of the human-in-loop orchestrator agent, with every kind of     *)
(* tool call the model can ask for                                          *)

\* a tool name the model asks for that was never registered
UnknownCall == [name |-> "transferFunds", args |-> <<>>, behaviour |-> "ok"]
\* calls whose executor throws
ThrowingBalanceCall == [BalanceCall EXCEPT !.behaviour = "throwError"]
ThrowingPaymentCall == [PaymentCall("5000") EXCEPT !.behaviour = "throwError"]

TurnToolCallLists ==
  {<<BalanceCall>>, <<ThrowingBalanceCall>>, <<UnknownCall>>,
   <<PaymentCall("5000")>>, <<ThrowingPaymentCall>>,
   <<ThrowingBalanceCall, BalanceCall>>, <<UnknownCall, BalanceCall>>,
   <<PaymentCall("5000"), BalanceCall>>, <<BalanceCall, PaymentCall("5000")>>}

\* response.choices[0].message of the first model call
TurnResponses ==
  {[content |-> <<"answer">>, tool_calls |-> <<>>],
   [content |-> <<>>, tool_calls |-> <<>>]} \cup
  {[content |-> <<>>, tool_calls |-> tc] : tc \in TurnToolCallLists}

\* the chat endpoint is called once: client.startNew(orchestratorName, ...)
TurnInstances == {1}

\* The scenario of one chat turn: a turn in session s1 and well-formed
\* decisions posted to s1 without feedback.
TurnScope ==
  /\ orch[1].sessionId \in {"", "s1"}
  /\ \A n \in 1..Len(posts) :
       posts[n].humanResponse = <<>> /\ posts[n].sessionId = "s1"
  /\ lastResponse.endpoint = "approve" => lastResponse.status = 200

\* a step A within this scenario
InTurnScope(A) == A /\ TurnScope'

NextTurn ==
  \/ \E i \in TurnInstances : InTurnScope(StartNew(i))
  \/ \E i \in TurnInstances : StoreUser(i)
  \/ \E i \in TurnInstances : ProcessMessageWith(i, TurnResponses)
  \/ \E i \in TurnInstances : ProcessMessageFails(i)
  \/ \E i \in TurnInstances : RequestApproval(i)
  \/ \E i \in TurnInstances : ExecuteSafeTool(i)
  \/ \E i \in TurnInstances : TimerFired(i)
  \/ \E i \in TurnInstances : PollState(i)
  \/ \E i \in TurnInstances : ExecuteApprovedTool(i)
  \/ \E i \in TurnInstances : MarkTimeout(i)
  \/ \E i \in TurnInstances : StoreAssistant(i)
  \/ Tick
  \/ InTurnScope(ApproveBySession)
  \/ \E n \in 1..MaxDecisions : ApproveBySessionAnswers(n)
  \/ \E n \in 1..MaxDecisions : DeliverApproval(n)

SpecTurn == Init /\ [][NextTurn]_vars

\* The durable runtime runs every step of an orchestration that is ready and
\* completes every timer: the turn's own steps and the clock are weakly fair.
\* Nothing is assumed about the human (ApproveBySession).
TurnRuns ==
  \E i \in TurnInstances :
    \/ StoreUser(i) \/ ProcessMessageWith(i, TurnResponses) \/ RequestApproval(i)
    \/ ExecuteSafeTool(i) \/ TimerFired(i) \/ PollState(i)
    \/ ExecuteApprovedTool(i) \/ MarkTimeout(i) \/ StoreAssistant(i)

\* The scenario of a gated call and its wait: one turn, in session s1, with a
\* one-minute approval deadline, that asks for the balance or for a payment of
\* 5000, and well-formed decisions posted to s1 without feedback.
WaitScope ==
  /\ \A i \in Instances : Active(i) => orch[i].approvalTimeoutMinutes = 1
  /\ orch[1].sessionId \in {"", "s1"}
  /\ orch[1].toolCalls \in {<<>>, <<BalanceCall>>, <<PaymentCall("5000")>>}
  /\ \A n \in 1..Len(posts) :
       posts[n].humanResponse = <<>> /\ posts[n].sessionId = "s1"
  /\ lastResponse.endpoint = "approve" => lastResponse.status = 200

\* a step A within this scenario
InWaitScope(A) == A /\ WaitScope'

NextWait ==
  \/ \E i \in TurnInstances : InWaitScope(StartNew(i))
  \/ \E i \in TurnInstances : StoreUser(i)
  \/ \E i \in TurnInstances : InWaitScope(ProcessMessageWith(i, TurnResponses))
  \/ \E i \in TurnInstances : ProcessMessageFails(i)
  \/ \E i \in TurnInstances : RequestApproval(i)
  \/ \E i \in TurnInstances : ExecuteSafeTool(i)
  \/ \E i \in TurnInstances : TimerFired(i)
  \/ \E i \in TurnInstances : PollState(i)
  \/ \E i \in TurnInstances : ExecuteApprovedTool(i)
  \/ \E i \in TurnInstances : MarkTimeout(i)
  \/ \E i \in TurnInstances : StoreAssistant(i)
  \/ Tick
  \/ InWaitScope(ApproveBySession)
  \/ \E n \in 1..MaxDecisions : ApproveBySessionAnswers(n)
  \/ \E n \in 1..MaxDecisions : DeliverApproval(n)

SpecTurnFair == Init /\ [][NextWait]_vars /\ WF_vars(TurnRuns) /\ WF_vars(Tick)

-----------------------------------------------------------------------------
(* Properties of one turn *)

\* the executor of some call of turn i threw: the registry logged the call
\* with the text its catch block produces
ExecutorThrew(i) ==
  \E e \in executed : e.inst = i /\ StartsWith(e.result, "Error executing ")

\* the last message of the transcript of turn i is a non-empty assistant answer
AnswerStored(i) ==
  LET history == getFullHistory(Ent(i)).chatHistory
  IN /\ Len(history) > 0
     /\ history[Len(history)].role = "assistant"
     /\ history[Len(history)].content # <<>>

\* C11: a turn in which the executor of a requested tool threw ends completed,
\* after a final (second) model call, with a non-empty assistant answer stored.
C11_ThrowingExecutorTurnCompletes ==
  [][\A i \in Instances :
       (Active(i) /\ ~Active(i)' /\ ExecutorThrew(i)')
       => /\ orch'[i].pc = "done"
          /\ orch[i].modelCalls = 2
          /\ AnswerStored(i)']_vars

\* C12: a requested tool name that is not registered fails that call only:
\* the step that handles the call does not abort the turn.
C12_UnknownToolDoesNotAbortTurn ==
  [][\A i \in Instances :
       (orch[i].pc = "toolCall" /\ ~HasTool(financialToolRegistry, CurrentCall(i).name))
       => orch'[i].pc # "failed"]_vars

\* the turn failed at its first model call
FailedAtModelCall(i) ==
  orch[i].pc = "failed" /\ orch[i].output.response = ModelCallFailed

\* C13: when the first model call of a turn fails, the turn fails and the
\* transcript of its (fresh) session holds the user message of the turn and
\* nothing else: no assistant message and no approval request.
C13_FailedModelCallStoresOnlyUserMessage ==
  \A i \in Instances :
    FailedAtModelCall(i)
    => LET full == getFullHistory(Ent(i))
       IN /\ Len(full.chatHistory) = 1
          /\ full.chatHistory[1].role = "user"
          /\ full.chatHistory[1].content = orch[i].message
          /\ full.approvalHistory = <<>>
          /\ ~orch[i].output.present

C13_Witness ==
  \E i \in Instances :
    /\ FailedAtModelCall(i)
    /\ Len(getFullHistory(Ent(i)).chatHistory) = 1

\* C14: the step that handles a call to a tool outside the gated set creates
\* no approval request, starts no wait (no timer, no poll, no clock advance)
\* and, for a registered tool, runs the executor in that same step; the
\* session never holds an approval request for such a tool.
C14_UngatedCallRunsWithoutApproval ==
  [][\A i \in Instances :
       (/\ orch[i].pc = "toolCall"
        /\ CurrentCall(i).name \notin humanApprovalTools
        /\ orch'[i] # orch[i])
       => /\ Ent(i)'.pendingApprovals = Ent(i).pendingApprovals
          /\ \A j \in 1..Len(Ent(i).pendingApprovals) :
               Ent(i).pendingApprovals[j].toolName \in humanApprovalTools
          /\ now' = now
          /\ orch'[i].pc \in {"toolCall", "storeAssistant", "failed"}
          /\ orch'[i].myReq = orch[i].myReq
          /\ HasTool(financialToolRegistry, CurrentCall(i).name)
             => \E e \in executed' :
                  /\ e.inst = i /\ e.k = orch[i].k
                  /\ e.toolName = CurrentCall(i).name
                  /\ e.reqStatus = "none"]_vars

C14_Witness ==
  \E e \in executed :
    /\ e.toolName \notin humanApprovalTools
    /\ e.reqStatus = "none"
    /\ entity[FinancialEntity][e.sessionId].pendingApprovals = <<>>
    /\ orch[e.inst].pc = "storeAssistant"

-----------------------------------------------------------------------------
(* Properties of the pending approvals of the wrapper *)

\* the entries of a listing that stand for the request a
EntriesFor(listing, a) ==
  {h \in 1..Len(listing) :
     /\ listing[h].sessionId = a.sessionId
     /\ listing[h].toolName = a.toolName
     /\ listing[h].toolArgs = a.toolArgs
     /\ listing[h].status = "pending"}

\* C15: while a requested gated call has no decision recorded, both the
\* store and the approvals endpoint of its session list exactly one pending
\* entry for it.
C15_PendingRequestIsListedOnce ==
  \A j \in 1..Len(wApprovals) :
    wApprovals[j].status = "pending"
    => /\ Cardinality(EntriesFor(WPending(wApprovals), wApprovals[j])) = 1
       /\ Cardinality(EntriesFor(
            approvalsGet(entity[FinancialEntity][wApprovals[j].sessionId]),
            wApprovals[j])) = 1

-----------------------------------------------------------------------------
(* Properties of the wait for a decision *)

\* the gated call of turn i is pending: its request is stored, the turn waits
PendingCall(i) == Active(i) /\ orch[i].myReq # 0

GateOutcomes == {"[HUMAN APPROVED] ", "[HUMAN REJECTED] ", "[TIMEOUT] Request timed out after "}

\* the gated call of turn i has reached one of Approved, Rejected, TimedOut
ResolvedCall(i) ==
  /\ orch[i].pc = "done"
  /\ orch[i].output.requiresApproval
  /\ Cardinality({o \in GateOutcomes : StartsWith(orch[i].output.response, o)}) = 1

\* C16: every gated call that becomes pending eventually reaches exactly one
\* of Approved, Rejected or TimedOut, and the turn never starts a wait that
\* ends more than one poll interval after the deadline of the call.
C16_PendingCallEventuallyResolves ==
  /\ \A i \in Instances : PendingCall(i) ~> ResolvedCall(i)
  /\ [](\A i \in Instances :
          orch[i].pc = "timer"
          => /\ orch[i].timerDue - PollIntervalSeconds < orch[i].timeoutDate
             /\ now <= orch[i].timerDue \/ now <= orch[i].timeoutDate)

C16_Witness ==
  \E i \in Instances :
    /\ ResolvedCall(i)
    /\ orch[i].myReq # 0
    /\ TimedOut(i)
    /\ now >= 1 * SecondsPerMinute

-----------------------------------------------------------------------------
(* Properties of the tool-call loop *)

\* C17: the requested calls are handled one at a time in the order requested
\* (the position moves by at most one per step) and a turn completes only
\* once its last requested call has been handled: no requested call is
\* skipped, also when an earlier call of the turn was gated.
C17_EveryRequestedCallProcessed ==
  [][\A i \in Instances :
       /\ (Active(i) /\ Active(i)' /\ orch[i].k > 0) => orch'[i].k \in {orch[i].k, orch[i].k + 1}
       /\ (Active(i) /\ orch'[i].pc = "done") => orch[i].k = Len(orch[i].toolCalls)]_vars

\* C18: a turn whose first model response requested at least one tool call
\* completes after a second model call, and the assistant message it stored
\* is the answer of that call, not the raw result of a tool.
C18_SecondModelCallGivesAnswer ==
  [][\A i \in Instances :
       (Active(i) /\ orch'[i].pc = "done" /\ Len(orch[i].toolCalls) > 0)
       => /\ orch[i].modelCalls = 2
          /\ AnswerStored(i)'
          /\ LET history == getFullHistory(Ent(i)').chatHistory
             IN \A e \in executed' :
                  e.inst = i => e.result # history[Len(history)].content]_vars

-----------------------------------------------------------------------------
(* Properties of the stored conversation state *)

IsPrefix(a, b) == Len(a) <= Len(b) /\ SubSeq(b, 1, Len(a)) = a

\* C22: the transcript of a session is append-only: over every step, the full
\* history read before the step is a prefix of the full history read after.
C22_TranscriptIsAppendOnly ==
  [][\A e \in EntityNames, s \in Sessions :
       IsPrefix(getFullHistory(entity[e][s]).chatHistory,
                getFullHistory(entity[e][s]).chatHistory')]_vars

\* C23: every approval request created for a session is listed in the
\* approval history read from that session's state, with the status
\* (pending, approved or rejected) recorded for it.
C23_ApprovalsRetainedInHistory ==
  \A j \in 1..Len(wApprovals) :
    LET a == wApprovals[j]
        audit == getFullHistory(entity[FinancialEntity][a.sessionId]).approvalHistory
    IN \E h \in 1..Len(audit) :
         /\ audit[h].toolName = a.toolName
         /\ audit[h].toolArgs = a.toolArgs
         /\ audit[h].status = a.status

\* the stamps of a stored state are consistent
StampsConsistent(st) ==
  /\ st.createdAt # NoTime
  /\ st.createdAt <= st.lastUpdated
  /\ \A j \in 1..Len(st.chatHistory) : st.chatHistory[j].timestamp <= st.lastUpdated
  /\ \A j \in 1..Len(st.pendingApprovals) :
       /\ st.pendingApprovals[j].timestamp <= st.lastUpdated
       /\ st.pendingApprovals[j].humanResponseTimestamp <= st.lastUpdated

\* C24: a conversation state does not exist until the first write to its
\* session; that write creates it, stamped with the current time, holding
\* nothing but what the write stored; every step that changes the messages or
\* the approvals of a state sets lastUpdated to the current time; so
\* lastUpdated is never earlier than createdAt or than a stored timestamp.
C24_LastUpdatedFollowsEveryMutation ==
  /\ [](\A e \in EntityNames, s \in Sessions :
          IF entity[e][s].exists
          THEN StampsConsistent(entity[e][s])
          ELSE entity[e][s] = NoEntity)
  /\ [][\A e \in EntityNames, s \in Sessions :
          /\ (~entity[e][s].exists /\ entity'[e][s].exists)
             => /\ entity'[e][s].createdAt = now
                /\ Len(entity'[e][s].chatHistory) + Len(entity'[e][s].pendingApprovals) <= 1
          /\ (entity'[e][s].chatHistory # entity[e][s].chatHistory
              \/ entity'[e][s].pendingApprovals # entity[e][s].pendingApprovals)
             => entity'[e][s].lastUpdated = now]_vars

\* a state whose last write came after its creation
C24_Witness ==
  \E e \in EntityNames, s \in Sessions :
    /\ entity[e][s].exists
    /\ Len(entity[e][s].chatHistory) >= 2
    /\ entity[e][s].createdAt < entity[e][s].lastUpdated
    /\ entity[e][s].chatHistory[Len(entity[e][s].chatHistory)].timestamp
         = entity[e][s].lastUpdated

ReadEndpoints == {"status", "approvalsGet"}

\* C25: a read-only query for a session that has never been written is
\* answered not-found (404), and the session still does not exist afterwards.
C25_UnknownSessionReadIsNotFound ==
  (/\ lastResponse.endpoint \in ReadEndpoints
   /\ ~entity[FinancialEntity][lastResponse.sessionId].exists)
  => lastResponse.status = 404

-----------------------------------------------------------------------------
(* Chat and state endpoints of a simple agent: which session a turn uses    *)

\* generateGuid() results and the ids `session-${guid}` made from them
Guids == {"guid1"}
GeneratedId(guid) == CASE guid = "guid1" -> "session-guid1"
GeneratedIds == {GeneratedId(g) : g \in Guids}
SessionKeys == Sessions \cup GeneratedIds

\* body.sessionId and request.params.sessionId as sent: absent, empty or an id
BodySessionIds == Sessions \cup {Undefined, ""}
UrlSessionIds == {"s2", Undefined}

\* if (x): neither undefined nor the empty string
Truthy(x) == x \notin {Undefined, ""}

\* (variant that prefers the URL parameter to the body value)
resolveSessionIdUrlFirst(bodySessionId, urlSessionId, guid) ==
  IF Truthy(urlSessionId) THEN urlSessionId
  ELSE IF Truthy(bodySessionId) THEN bodySessionId
  ELSE GeneratedId(guid)
\* createChatEndpoint: body.sessionId, else request.params.sessionId, else a new id
resolveSessionId(bodySessionId, urlSessionId, guid) ==
  IF Truthy(bodySessionId) THEN bodySessionId
  ELSE IF Truthy(urlSessionId) THEN urlSessionId
  ELSE GeneratedId(guid)

ChatInstances == {1}
ChatAgent == MathAgent

\* POST {agent}/chat/{sessionId?}: resolve the session id and start the turn
ChatEndpoint(i) ==
  /\ fTurn.turn[i].pc = "idle"
  /\ \E b \in BodySessionIds, u \in UrlSessionIds, g \in Guids :
       fTurn' = [fTurn EXCEPT !.turn[i] =
                   [IdleF EXCEPT !.pc = "storeUser", !.agent = ChatAgent,
                                 !.entityName = AgentEntity(fTurn.app, ChatAgent),
                                 !.sessionId = resolveSessionId(b, u, g),
                                 !.message = <<"message", ToString(i)>>,
                                 !.bodySessionId = b, !.urlSessionId = u]]
  /\ UNCHANGED <<now, entity, orch, posts, lastResponse, executed, wApprovals, wTurn, tcase, tres>>

\* GET {agent}/state/{sessionId}: client.readEntityState(entityId)
stateEndpoint(st, sessionId) ==
  IF ~st.exists
  THEN [endpoint |-> "state", status |-> 404, sessionId |-> sessionId,
        messageCount |-> 0, recentMessages |-> <<>>]
  ELSE [endpoint |-> "state", status |-> 200, sessionId |-> sessionId,
        messageCount |-> Len(st.chatHistory),
        recentMessages |-> SliceLast(st.chatHistory, RecentWindow)]

StateEndpoint ==
  /\ \E s \in SessionKeys :
       lastResponse' = stateEndpoint(entity[AgentEntity(fTurn.app, ChatAgent)][s], s)
  /\ UNCHANGED <<now, entity, orch, posts, executed, wApprovals, wTurn, fTurn, tcase, tres>>

InitChat ==
  /\ now = 0
  /\ entity = [e \in EntityNames |-> [s \in SessionKeys |-> NoEntity]]
  /\ orch = [i \in Instances |-> IdleOrch]
  /\ posts = <<>>
  /\ lastResponse = NoResponse
  /\ executed = {}
  /\ wApprovals = <<>>
  /\ wTurn = <<>>
  /\ fTurn = [app |-> "simple", turn |-> [i \in FInstances |-> IdleF]]
  /\ tcase = <<>>
  /\ tres = <<>>

NextChat ==
  \/ \E i \in ChatInstances : ChatEndpoint(i)
  \/ \E i \in ChatInstances : FStoreUser(i)
  \/ \E i \in ChatInstances : FProcessChat(i)
  \/ \E i \in ChatInstances : FProcessChatFails(i)
  \/ \E i \in ChatInstances : FStoreAssistant(i)
  \/ StateEndpoint
  \/ FTick

SpecChat == InitChat /\ [][NextChat]_vars

\* the turn has started and its user message is stored
UserStored(i) == fTurn.turn[i].pc \notin {"idle", "storeUser"}

\* C26: the session of a turn is the body's sessionId when one is supplied,
\* otherwise the URL parameter when one is supplied, each unchanged, and a
\* generated session-<guid> id only when neither is supplied; a state request
\* for that id is answered from the transcript the turn wrote.
C26_SessionKeyIsCallerSupplied ==
  /\ [](\A i \in ChatInstances :
          fTurn.turn[i].pc # "idle"
          => LET t == fTurn.turn[i]
             IN /\ t.bodySessionId \in Sessions => t.sessionId = t.bodySessionId
                /\ (t.bodySessionId \notin Sessions /\ t.urlSessionId \in Sessions)
                   => t.sessionId = t.urlSessionId
                /\ t.sessionId \in GeneratedIds
                   <=> (t.bodySessionId \notin Sessions /\ t.urlSessionId \notin Sessions))
  /\ [][\A i \in ChatInstances :
          (/\ lastResponse' # lastResponse
           /\ lastResponse'.endpoint = "state"
           /\ lastResponse'.sessionId = fTurn.turn[i].sessionId
           /\ UserStored(i))
          => /\ lastResponse'.status = 200
             /\ lastResponse'.messageCount >= 1
             /\ lastResponse'.recentMessages[1].role = "user"
             /\ lastResponse'.recentMessages[1].content = fTurn.turn[i].message]_vars

\* a turn started with both a body sessionId and a different URL sessionId,
\* and its state was read under the body's id
C26_Witness ==
  \E i \in ChatInstances :
    /\ fTurn.turn[i].pc = "done"
    /\ fTurn.turn[i].bodySessionId = "s1"
    /\ fTurn.turn[i].urlSessionId = "s2"
    /\ lastResponse.endpoint = "state"
    /\ lastResponse.sessionId = "s1"
    /\ lastResponse.messageCount = 2

-----------------------------------------------------------------------------
(* Properties of the session store during a wait *)

\* The scenario of a session shared by two turns: a first turn in session s1
\* that may request a payment with a one-minute approval deadline; a second
\* turn in the same session, started once the first one has asked for
\* approval, that the model answers directly; and well-formed decisions posted
\* to s1 one after the other, without feedback.
SharedScope ==
  /\ \A i \in Instances : Active(i) => orch[i].approvalTimeoutMinutes = 1
  /\ \A i \in Instances : orch[i].sessionId \in {"", "s1"}
  /\ orch[1].toolCalls \in {<<>>, <<PaymentCall("5000")>>}
  /\ orch[2].toolCalls = <<>>
  /\ Active(2) => orch[1].myReq # 0
  /\ \A n \in 1..Len(posts) :
       posts[n].humanResponse = <<>> /\ posts[n].sessionId = "s1"
  /\ \A n \in 1..(Len(posts) - 1) : posts[n].answered
  /\ lastResponse.endpoint = "approve" => lastResponse.status = 200

\* a step A within this scenario
Shared(A) == A /\ SharedScope'

NextShared ==
  \/ \E i \in Instances : Shared(StartNew(i))
  \/ \E i \in Instances : StoreUser(i)
  \/ \E i \in Instances : Shared(ProcessMessage(i))
  \/ \E i \in Instances : ProcessMessageFails(i)
  \/ \E i \in Instances : RequestApproval(i)
  \/ \E i \in Instances : TimerFired(i)
  \/ \E i \in Instances : PollState(i)
  \/ \E i \in Instances : ExecuteApprovedTool(i)
  \/ \E i \in Instances : MarkTimeout(i)
  \/ \E i \in Instances : StoreAssistant(i)
  \/ Tick
  \/ Shared(ApproveBySession)
  \/ \E n \in 1..MaxDecisions : ApproveBySessionAnswers(n)
  \/ \E n \in 1..MaxDecisions : DeliverApproval(n)

SpecShared == Init /\ [][NextShared]_vars

\* turn i waits between two polls of its gated call
WaitsForDecision(i) == orch[i].pc = "timer"

\* C27: while a gated call waits for a decision the session is not locked:
\* a decision in flight for the session can be applied, another turn of the
\* session can append its message and the session's state can be read; and a
\* decision applied during the wait sets the status of a request of the
\* session.
C27_WaitHoldsNoLock ==
  /\ [](\A i \in Instances :
          WaitsForDecision(i)
          => /\ \A n \in 1..Len(posts) :
                  (posts[n].outcome = "inflight" /\ posts[n].sessionId = orch[i].sessionId)
                  => ENABLED DeliverApproval(n)
             /\ \A h \in Instances :
                  (orch[h].pc = "storeUser" /\ orch[h].sessionId = orch[i].sessionId)
                  => ENABLED StoreUser(h)
             /\ ENABLED SessionStatusGet)
  /\ [][\A i \in Instances, n \in 1..Len(posts) :
          (/\ WaitsForDecision(i)
           /\ posts[n].outcome = "inflight"
           /\ posts[n].sessionId = orch[i].sessionId
           /\ posts'[n].outcome = "applied")
          => \E j \in 1..Len(Ent(i).pendingApprovals) :
               /\ Ent(i).pendingApprovals[j].status = "pending"
               /\ Ent(i)'.pendingApprovals[j].status = posts[n].decision]_vars

\* a decision was applied to the request of a turn that is still waiting,
\* and another turn appended a message to the same session meanwhile
C27_Witness ==
  \E i \in Instances :
    /\ WaitsForDecision(i)
    /\ OwnRequest(i).status # "pending"
    /\ \E j \in 1..Len(Ent(i).chatHistory) :
         Ent(i).chatHistory[j].timestamp > OwnRequest(i).timestamp

-----------------------------------------------------------------------------
(* Startup of an agent: configuration of the gated tools, then run() *)

MaxRoutes == 3    \* tool calls routed after startup

\* (variant in which the orchestrator keeps the set the constructor created)
captureAtConstruction(field) == {}
\* const humanApprovalTools = this.humanApprovalTools, in createChatOrchestrator
captureAtRun(field) == field

\* the agent object after its constructor: no gated tool, nothing registered
InitStartup ==
  /\ now = 0
  /\ entity = [e \in EntityNames |-> [s \in Sessions |-> NoEntity]]
  /\ orch = [i \in Instances |-> IdleOrch]
  /\ posts = <<>>
  /\ lastResponse = NoResponse
  /\ executed = {}
  /\ wApprovals = <<>>
  /\ wTurn = <<>>
  /\ fTurn = <<>>
  /\ tcase \in {[kind |-> k, field |-> {}, captured |-> Undefined,
                 setCalls |-> 0, configured |-> {}, running |-> FALSE] :
                 k \in {"orchestrator", "wrapper"}}
  /\ tres = [routes |-> <<>>]

\* setHumanApprovalTools(toolNames): this.humanApprovalTools = new
\* Set(toolNames); the method tests nothing
SetHumanApprovalTools(toolNames) ==
  /\ tcase' = [tcase EXCEPT !.field = toolNames, !.setCalls = @ + 1]
  /\ UNCHANGED <<now, entity, orch, posts, lastResponse, executed, wApprovals, wTurn, fTurn, tres>>

\* run(): registers the orchestrator, whose closure holds the set the field
\* refers to at that moment; the agent starts with that configuration
run ==
  /\ tcase' = [tcase EXCEPT !.running = TRUE, !.captured = captureAtRun(tcase.field),
                            !.configured = tcase.field]
  /\ UNCHANGED <<now, entity, orch, posts, lastResponse, executed, wApprovals, wTurn, fTurn, tres>>

\* the application's startup code configures the agent it constructed:
\* financialAgent.setHumanApprovalTools(['makePayment']), one call per agent,
\* placed before the agent is started; no handler of the application calls it
ConfigureAgent ==
  /\ tcase.setCalls = 0
  /\ ~tcase.running
  /\ \E toolNames \in SUBSET ToolNames : SetHumanApprovalTools(toolNames)

\* the application's startup code then starts the agent: financialAgent.run()
StartAgent ==
  /\ tcase.setCalls = 1
  /\ ~tcase.running
  /\ run

\* humanApprovalTools.has(toolName) in the orchestrator,
\* this.humanApprovalTools.has(toolName) in the wrapper
RouteToolCall ==
  /\ tcase.running
  /\ Len(tres.routes) < MaxRoutes
  /\ \E i \in Instances, toolName \in ToolNames :
       tres' = [tres EXCEPT !.routes =
                  Append(@, [turn |-> i, toolName |-> toolName,
                             gated |-> IF tcase.kind = "orchestrator"
                                       THEN toolName \in tcase.captured
                                       ELSE toolName \in tcase.field])]
  /\ UNCHANGED <<now, entity, orch, posts, lastResponse, executed, wApprovals, wTurn, fTurn, tcase>>

NextStartup == ConfigureAgent \/ StartAgent \/ RouteToolCall

SpecStartup == InitStartup /\ [][NextStartup]_vars

\* the set the agent was configured with at startup: the one given to
\* setHumanApprovalTools before run()
ConfiguredAtStartup == tcase.configured

\* C28: every tool call of every turn is routed by the set configured at
\* startup through setHumanApprovalTools: a call is gated exactly if its tool
\* is named in that set, in every turn, and the set the agent holds does not
\* change once the agent runs.
C28_GatedSetIsTheConfiguredOne ==
  /\ [](\A k \in 1..Len(tres.routes) :
          tres.routes[k].gated <=> tres.routes[k].toolName \in ConfiguredAtStartup)
  /\ [][tcase.running => (tcase'.field = tcase.field /\ tcase'.running)]_vars

\* an agent started with makePayment gated routed a makePayment call and a
\* checkAccountBalance call in one turn and a makePayment call in another turn
C28_Witness ==
  /\ tcase.running
  /\ ConfiguredAtStartup = {"makePayment"}
  /\ Len(tres.routes) = MaxRoutes
  /\ \E h, k, m \in 1..Len(tres.routes) :
       /\ tres.routes[h].toolName = "makePayment" /\ tres.routes[h].gated
       /\ tres.routes[k].toolName = "makePayment" /\ tres.routes[k].gated
       /\ tres.routes[h].turn # tres.routes[k].turn
       /\ tres.routes[m].toolName = "checkAccountBalance" /\ ~tres.routes[m].gated

-----------------------------------------------------------------------------
(* Order of the steps of a turn *)

\* the transcript of the session of turn i holds the user message of the turn
UserMessageInTranscript(i) ==
  \E j \in 1..Len(Ent(i).chatHistory) :
    /\ Ent(i).chatHistory[j].role = "user"
    /\ Ent(i).chatHistory[j].content = orch[i].message

\* the step is the model call of turn i (answered or failed)
ModelCallStep(i) == orch[i].pc = "processMessage" /\ orch'[i].pc # "processMessage"
\* the step runs a tool executor for turn i
ExecutorStep(i) == \E x \in executed' \ executed : x.inst = i
\* the step creates an approval request for turn i
ApprovalRequestStep(i) ==
  /\ orch[i].pc = "toolCall"
  /\ Len(Ent(i)'.pendingApprovals) > Len(Ent(i).pendingApprovals)

\* C29: within a turn the user message is in the session's transcript before
\* the model is called, before any tool executor runs and before any approval
\* request of the turn is created.
C29_UserMessageStoredFirst ==
  [][\A i \in TurnInstances :
       (ModelCallStep(i) \/ ExecutorStep(i) \/ ApprovalRequestStep(i))
       => UserMessageInTranscript(i)]_vars

\* a turn that stored its message, called the model, created an approval
\* request and ran an executor
C29_Witness ==
  \E i \in TurnInstances :
    /\ orch[i].pc = "done"
    /\ UserMessageInTranscript(i)
    /\ orch[i].myReq > 0
    /\ \E x \in executed : x.inst = i

-----------------------------------------------------------------------------
(* Executions of one gated call *)

\* C30: a gated tool call leads to at most one invocation of the executor of
\* its tool: the invocations recorded for one approval request, by the chat
\* turn or by the approval-decision API, are at most one.
C30_GatedCallRunsAtMostOnce ==
  \A x, y \in executed :
    (IsGated(x.toolName) /\ IsGated(y.toolName) /\ x.req = y.req) => x = y

-----------------------------------------------------------------------------
(* Which request resolves a gated call *)

\* the approval the poll of turn i matches in the state it reads (0 if none)
MatchedByPoll(i) ==
  FindDecided(getState(Ent(i), now).pendingApprovals, orch[i].sessionId, CurrentCall(i).name)

\* the poll of turn i ends the wait with a human decision
ResolvingPoll(i) ==
  /\ orch[i].pc = "getState"
  /\ MatchedByPoll(i) # 0

\* C31: a gated call is resolved only by a decision recorded after its own
\* approval request was created: the request whose decision ends the wait is
\* never one created for an earlier call of the same tool in the session.
\* (checked for turns of a session that ran one after the other, so that the
\* earlier request was decided before the later turn created its own)
C31_EarlierDecisionNeverResolvesLaterCall ==
  [][\A i \in Instances :
       ( /\ ResolvingPoll(i)
         /\ orch'[i].pc # "getState"
         /\ \A h \in Instances :
              orch[h].sessionId = orch[i].sessionId => ~orch[h].overlapped )
       => MatchedByPoll(i) >= orch[i].myReq]_vars

-----------------------------------------------------------------------------
(* Arguments of a gated execution *)

\* C32: whenever the executor of a gated tool has been invoked, the store of
\* the session holds an approved request for that tool with exactly the
\* arguments of the invocation.
C32_GatedExecutorRunsApprovedArguments ==
  \A x \in executed :
    IsGated(x.toolName) =>
      \E j \in 1..Len(entity[FinancialEntity][x.sessionId].pendingApprovals) :
        LET a == entity[FinancialEntity][x.sessionId].pendingApprovals[j]
        IN a.status = "approved" /\ a.toolName = x.toolName /\ a.toolArgs = x.toolArgs

-----------------------------------------------------------------------------
(* Which request a timeout marks *)

\* the step is the timeout mark of turn i
TimeoutMarkStep(i) == orch[i].pc = "timeoutMark" /\ orch'[i].pc = "done"

\* C33: when a gated call times out, the request that the timeout marks
\* rejected is the one the call created, also when another request of the
\* session is pending at that moment.
C33_TimeoutMarksOwnRequest ==
  [][\A i \in Instances :
       TimeoutMarkStep(i)
       => \A j \in 1..Len(Ent(i).pendingApprovals) :
            Ent(i)'.pendingApprovals[j].status # Ent(i).pendingApprovals[j].status
            => j = orch[i].myReq]_vars

-----------------------------------------------------------------------------
(* A decision accepted before the deadline *)

\* the request of turn i holds a decision of the decision API (not the mark
\* of a timeout) and the deadline of the call has not been reached
DecidedBeforeDeadline(i) ==
  /\ now < orch[i].timeoutDate
  /\ OwnRequest(i).status # "pending"
  /\ ~StartsWith(OwnRequest(i).humanResponse, "Timeout after ")

\* C34: if a decision for a waiting gated call was accepted and stored on its
\* request before the deadline of the call, the poll that follows resolves
\* the call with that decision and not as a timeout: the turn goes on to
\* execute exactly if the stored status is approved and reports a rejection
\* exactly if it is rejected.
C34_DecisionInTimeResolvesCall ==
  [][\A i \in Instances :
       (orch[i].pc = "getState" /\ DecidedBeforeDeadline(i) /\ orch'[i] # orch[i])
       => IF OwnRequest(i).status = "approved"
          THEN orch'[i].pc = "execApproved"
          ELSE /\ orch'[i].pc = "done"
               /\ StartsWith(orch'[i].output.response, "[HUMAN REJECTED] ")]_vars

-----------------------------------------------------------------------------
(* Transcript of concurrent turns *)

\* the turns of the simple agents that have completed on entity e, session s
FCompletedOn(e, s) ==
  {i \in FInstances : /\ fTurn.turn[i].pc = "done"
                      /\ fTurn.turn[i].entityName = e
                      /\ fTurn.turn[i].sessionId = s}

\* in history the answer of turn i comes directly after the message of turn i
FAnswerFollowsOwnMessage(history, i) ==
  \E j \in 1..(Len(history) - 1) :
    /\ history[j].role = "user"
    /\ history[j].content = fTurn.turn[i].message
    /\ history[j + 1].role = "assistant"
    /\ history[j + 1].content = fTurn.turn[i].response

\* C35: also when two turns ran concurrently on one session, once they have
\* completed the transcript alternates user and assistant messages and the
\* answer of each turn directly follows the user message of that turn.
C35_ConcurrentTurnsKeepAlternation ==
  fTurn.app = "simple" =>
    \A a \in Agents : \A s \in Sessions :
      LET history == entity[EntityNameOf(a)][s].chatHistory
      IN (\A i \in FInstances :
            (fTurn.turn[i].entityName = EntityNameOf(a) /\ fTurn.turn[i].sessionId = s)
            => fTurn.turn[i].pc = "done")
         => /\ Alternates(history)
            /\ \A i \in FCompletedOn(EntityNameOf(a), s) : FAnswerFollowsOwnMessage(history, i)

-----------------------------------------------------------------------------
(* Answer of the human-in-loop chat endpoint *)

\* client.getStatus(instanceId).output: the value the orchestrator returned,
\* nothing while the instance runs or after it failed
StatusOutput(i) == IF orch[i].pc = "done" THEN orch[i].output ELSE NoOutput

\* the chat endpoint, 5 seconds after client.startNew: 200 with the approval
\* info if the output asks for approval, else 202 'Chat processing started.'
HilChatAnswer(i) ==
  /\ orch[i].pc # "idle"
  /\ LET output == StatusOutput(i)
     IN lastResponse' =
          IF output.present /\ output.requiresApproval /\ orch[i].sessionId # ""
          THEN [endpoint |-> "chat", status |-> 200, sessionId |-> orch[i].sessionId,
                instance |-> i, requiresApproval |-> TRUE,
                toolName |-> output.toolName, toolArgs |-> output.toolArgs]
          ELSE [endpoint |-> "chat", status |-> 202, sessionId |-> orch[i].sessionId,
                instance |-> i, requiresApproval |-> FALSE,
                toolName |-> Undefined, toolArgs |-> Undefined]
  /\ UNCHANGED <<now, entity, orch, posts, executed, wApprovals, wTurn, fTurn, tcase, tres>>

NextAnswer ==
  \/ NextTurn
  \/ \E i \in TurnInstances : HilChatAnswer(i)
  \/ SessionStatusGet

SpecAnswer == Init /\ [][NextAnswer]_vars

\* the gated call of turn i is waiting and its request is pending
GatedCallPending(i) ==
  /\ orch[i].pc \in {"timer", "getState"}
  /\ OwnRequest(i).status = "pending"

\* C36: if the gated call of a turn is pending when the chat endpoint
\* answers, the answer reports requiresApproval true with the tool name and
\* the arguments of the call.
C36_PendingCallIsReported ==
  [][\A i \in TurnInstances :
       ( /\ GatedCallPending(i)
         /\ lastResponse' # lastResponse
         /\ lastResponse'.endpoint = "chat"
         /\ lastResponse'.instance = i )
       => /\ lastResponse'.requiresApproval
          /\ lastResponse'.toolName = CurrentCall(i).name
          /\ lastResponse'.toolArgs = CurrentCall(i).args]_vars

-----------------------------------------------------------------------------
(* Which agent processes a turn *)

\* C37: when several agents run in one function app, a turn sent to an agent
\* is processed by that agent: the answer of the turn is produced with the
\* configuration and the tool registry of the agent the turn was sent to.
C37_TurnProcessedByItsOwnAgent ==
  \A i \in FInstances :
    (fTurn.app \in Apps /\ fTurn.turn[i].pc \in {"storeAssistant", "done"})
    => fTurn.turn[i].response = <<"answer of ">> \o fTurn.turn[i].agent

\* two agents of the multi-agent app each completed a turn with its own answer
C37_Witness ==
  /\ fTurn.app = "simple"
  /\ fTurn.turn[1].agent = MathAgent /\ fTurn.turn[2].agent = WeatherAgent
  /\ fTurn.turn[1].pc = "done" /\ fTurn.turn[2].pc = "done"
  /\ fTurn.turn[1].response # fTurn.turn[2].response

=============================================================================
